---- MODULE Spec2Model ----
(***************************************************************************)
(* A model of the MyAgent session actor of NEARgovernance/aide: the        *)
(* session event emitter and the event-streamed query / sentiment runs     *)
(* (specification Spec), one LLM call with its retry loop (SpecLLM) and    *)
(* the MCP connection registry (SpecReg).                                  *)
(*                                                                         *)
(* The repository holds several copies of the server.  The model follows   *)
(* src/unnamed/part_003, the copy with the retry loop and the sentiment    *)
(* run; where src/src/server.ts has the same code the line numbers of      *)
(* both are given.  JavaScript runs one macrotask at a time: an action is  *)
(* the code between two awaits of real I/O or timers.                      *)
(***************************************************************************)
EXTENDS Integers, Sequences, FiniteSets, TLC

(* ------------------------------ bounds -------------------------------- *)
NumSessions == 2
MaxRuns == 1
MaxSinks == 2
MaxPings == 1

(* -------------------------- program constants ------------------------- *)
\* performSentimentAnalysis: while (!has(sessionId) && attempts < 10)
PollAttempts == 10

Sessions == 1..NumSessions
RunIds == 1..MaxRuns
SinkIds == 1..MaxSinks
\* sessionId === null (the guard of emitToSession)
NullSid == 0
\* the Map has no entry for the key
NoSink == 0
\* POST query-with-events of part_003 takes its session id from the request
\* path (pathSegments.at(-2)): the name of this agent instance, the same for
\* every request the instance serves.
AgentSid == 1

VARIABLES
  eventControllers,  \* this.eventControllers: session id -> sink (NoSink: no entry)
  sinks,             \* per stream created: session id, open, what was written, timers
  nSinks,            \* number of streams created so far
  runs,              \* per run slot: the position of one handler / pipeline run,
                     \* and (history) the emitToSession calls it made, in order
  llm,               \* SpecLLM: the state of one query's LLM tail
  reg,               \* SpecReg: the connection registry and its requests
  data,              \* SpecData: one query's data, from tool results to response
  chat,              \* SpecChat: the Chat component's state for one submitted query
  hooks              \* SpecHooks: the useMCPConnection module globals and hook instances

vars == <<eventControllers, sinks, nSinks, runs, llm, reg, data, chat, hooks>>

(* ------------------------------ events -------------------------------- *)
MessageTypes == {"TEXT_MESSAGE_START", "TEXT_MESSAGE_CONTENT", "TEXT_MESSAGE_END"}

\* An event as the model keeps it: its type and its messageId (0: none;
\* nanoid() is a fresh id, here the number of the run that drew it).
Ev(type, mid) == [type |-> type, mid |-> mid]

\* The emitter state that emitToSession reads and writes, with the history
\* of the calling run; threw: an exception left the call.
EmitterState(log) == [ec |-> eventControllers, sinks |-> sinks, log |-> log, threw |-> FALSE]

\* A history entry; to: the sink written to, NoSink when dropped, -1 when the write failed.
Logged(ev, to) == [type |-> ev.type, mid |-> ev.mid, to |-> to]

\* Fault: a rejected write leaves the writer in the registry.
WriteFailedKeepsSink(st, sid, ev) == [st EXCEPT !.log = Append(@, Logged(ev, -1))]

\* emitToSession when writer.write rejects: catch, delete(sessionId),
\* try { writer.close() } catch {}; nothing is thrown.
WriteFailed(st, sid, ev) ==
  [st EXCEPT !.ec[sid] = NoSink,
             !.log = Append(@, Logged(ev, -1))]

\* Fault: emitToSession without its "if (!writer) return" guard; the write on
\* an absent writer raises.
EmitToSessionUnguarded(st, sid, ev) ==
  IF sid = NullSid THEN st
  ELSE LET k == st.ec[sid] IN
    IF k = NoSink
      THEN [st EXCEPT !.threw = TRUE, !.log = Append(@, Logged(ev, NoSink))]
    ELSE IF st.sinks[k].open
      THEN [st EXCEPT !.sinks[k].stream = Append(@, ev),
                      !.log = Append(@, Logged(ev, k))]
    ELSE [st EXCEPT !.ec[sid] = NoSink,
                    !.log = Append(@, Logged(ev, -1))]

\* emitToSession(sessionId, event)
EmitToSession(st, sid, ev) ==
  IF sid = NullSid THEN st
  ELSE LET k == st.ec[sid] IN
    IF k = NoSink
      THEN [st EXCEPT !.log = Append(@, Logged(ev, NoSink))]
    ELSE IF st.sinks[k].open
      THEN [st EXCEPT !.sinks[k].stream = Append(@, ev),
                      !.log = Append(@, Logged(ev, k))]
    ELSE WriteFailed(st, sid, ev)

\* Several emitToSession calls made one after the other with no await between.
RECURSIVE EmitAll(_, _, _)
EmitAll(st, sid, evs) ==
  IF evs = <<>> THEN st
  ELSE EmitAll(EmitToSession(st, sid, Head(evs)), sid, Tail(evs))

\* The handler's own send(): writer.write on its own stream, the promise neither
\* awaited nor caught; a write to a stream that no longer accepts it is lost.
Send(st, k, ev) ==
  IF st.sinks[k].open
    THEN [st EXCEPT !.sinks[k].stream = Append(@, ev)]
    ELSE st

\* The step of run r: the emitter as st leaves it, the run as rec with the
\* history of st.
SetStep(r, st, rec) ==
  /\ eventControllers' = st.ec
  /\ sinks' = st.sinks
  /\ runs' = [runs EXCEPT ![r] = [rec EXCEPT !.emitted = st.log]]


(* ------------------------------- state -------------------------------- *)
NoRun == [kind |-> "none", handler |-> "none", sid |-> NullSid, pc |-> "idle", own |-> NoSink,
          hasKey |-> FALSE, attempts |-> 0, waitSink |-> "unknown", stages |-> <<>>,
          emitted |-> <<>>, outcome |-> "none",
          timer |-> "none", status |-> 0, filterOut |-> "none", analyzeIn |-> "none"]
NoStream == [sid |-> NullSid, kind |-> "none", open |-> FALSE, stream |-> <<>>,
             interval |-> FALSE, shutdown |-> FALSE, pings |-> 0]

InitEmitter ==
  /\ eventControllers = [s \in Sessions |-> NoSink]
  /\ sinks = [k \in SinkIds |-> NoStream]
  /\ nSinks = 0
  /\ runs = [r \in RunIds |-> NoRun]

\* The only run slot a new request may take: slots are used in order.
FreeRun(r) == runs[r].kind = "none" /\ \A q \in RunIds : q < r => runs[q].kind # "none"

\* A session id drawn by nanoid() on the server: no run and no stream had it.
FreshSid(s) ==
  /\ s # AgentSid
  /\ eventControllers[s] = NoSink
  /\ \A r \in RunIds : runs[r].sid # s
  /\ \A k \in SinkIds : sinks[k].sid # s

\* A server-drawn session id that no response has given to a client yet:
\* POST sentiment-analysis answers {sessionId} only after the run returned.
Secret(s) == \E r \in RunIds : runs[r].handler = "post" /\ runs[r].sid = s /\ runs[r].pc # "done"

\* Fault: a stream is registered without its first write.
NewStreamSilent(s, kind, first, timed) ==
  [sid |-> s, kind |-> kind, open |-> TRUE, stream |-> << >>,
   interval |-> timed, shutdown |-> timed, pings |-> 0]

\* A stream as its handler leaves it: registered, its first write issued,
\* its timers armed.
NewStream(s, kind, first, timed) ==
  [sid |-> s, kind |-> kind, open |-> TRUE, stream |-> first,
   interval |-> timed, shutdown |-> timed, pings |-> 0]

\* Fault: a wait that goes on whether or not a controller is registered.
HasControllerIgnored(ec, sid) == TRUE

\* this.eventControllers.has(sessionId), the test that ends a run's wait
HasController(ec, sid) == ec[sid] # NoSink

\* History: what the registry held for the run's session when its wait ended.
Seen(ec, sid) == IF ec[sid] = NoSink THEN "absent" ELSE "present"

(* --------------------------- stream handlers -------------------------- *)
\* Fault: a session that has a sink keeps it, the new stream is not registered.
GetEventsKeepsFirst(s) ==
  /\ nSinks < MaxSinks
  /\ ~Secret(s)
  /\ LET k == nSinks + 1 IN
     /\ nSinks' = k
     /\ eventControllers' = [eventControllers EXCEPT ![s] = IF @ = NoSink THEN k ELSE @]
     /\ sinks' = [sinks EXCEPT ![k] =
          NewStream(s, "events", <<Ev("CONNECTION_ESTABLISHED", 0)>>, TRUE)]
  /\ UNCHANGED <<runs, llm, reg, data, chat, hooks>>

\* GET events?session=s: set(sessionId, writer), write CONNECTION_ESTABLISHED,
\* arm the keep-alive interval and the 5-minute shutdown.
GetEvents(s) ==
  /\ nSinks < MaxSinks
  /\ ~Secret(s)
  /\ LET k == nSinks + 1 IN
     /\ nSinks' = k
     /\ eventControllers' = [eventControllers EXCEPT ![s] = k]
     /\ sinks' = [sinks EXCEPT ![k] =
          NewStream(s, "events", <<Ev("CONNECTION_ESTABLISHED", 0)>>, TRUE)]
  /\ UNCHANGED <<runs, llm, reg, data, chat, hooks>>

\* The keep-alive interval of a GET events stream fires.
KeepAlive(k) ==
  /\ sinks[k].kind = "events"
  /\ sinks[k].interval
  /\ IF sinks[k].open
       THEN /\ sinks[k].pings < MaxPings
            /\ sinks' = [sinks EXCEPT ![k].stream = Append(@, Ev(": keep-alive", 0)),
                                      ![k].pings = @ + 1]
            /\ UNCHANGED eventControllers
       ELSE \* catch: clearInterval, delete(sessionId), await writer.close()
            /\ eventControllers' = [eventControllers EXCEPT ![sinks[k].sid] = NoSink]
            /\ sinks' = [sinks EXCEPT ![k].interval = FALSE]
  /\ UNCHANGED <<nSinks, runs, llm, reg, data, chat, hooks>>

\* The 5-minute timer of a GET events stream: clearInterval, delete(sessionId),
\* writer.close().
Shutdown(k) ==
  /\ sinks[k].kind = "events"
  /\ sinks[k].shutdown
  /\ eventControllers' = [eventControllers EXCEPT ![sinks[k].sid] = NoSink]
  /\ sinks' = [sinks EXCEPT ![k].open = FALSE, ![k].shutdown = FALSE, ![k].interval = FALSE]
  /\ UNCHANGED <<nSinks, runs, llm, reg, data, chat, hooks>>

\* GET query-with-events (the older stream route): the writer is stored under
\* the session id, ": connected" is written and awaited, then a keep-alive
\* interval is started. No lifetime timer is armed.
GetQueryWithEvents(s) ==
  /\ nSinks < MaxSinks
  /\ ~Secret(s)
  /\ LET k == nSinks + 1 IN
     /\ nSinks' = k
     /\ eventControllers' = [eventControllers EXCEPT ![s] = k]
     /\ sinks' = [sinks EXCEPT ![k] =
          [NewStream(s, "legacy", <<Ev(": connected", 0)>>, FALSE) EXCEPT !.interval = TRUE]]
  /\ UNCHANGED <<runs, llm, reg, data, chat, hooks>>

\* The keep-alive interval of a GET query-with-events stream fires: a failed
\* write only clears the interval.
LegacyKeepAlive(k) ==
  /\ sinks[k].kind = "legacy"
  /\ sinks[k].interval
  /\ IF sinks[k].open
       THEN /\ sinks[k].pings < MaxPings
            /\ sinks' = [sinks EXCEPT ![k].stream = Append(@, Ev(": keep-alive", 0)),
                                      ![k].pings = @ + 1]
       ELSE sinks' = [sinks EXCEPT ![k].interval = FALSE]
  /\ UNCHANGED <<eventControllers, nSinks, runs, llm, reg, data, chat, hooks>>

\* Fault: a disconnect ends the runs of the sink's session.
ClientDisconnectCancels(k) ==
  /\ sinks[k].open
  /\ sinks' = [sinks EXCEPT ![k].open = FALSE]
  /\ runs' = [r \in RunIds |->
       IF runs[r].kind # "none" /\ runs[r].sid = sinks[k].sid /\ runs[r].outcome = "none"
         THEN [runs[r] EXCEPT !.pc = "returned", !.outcome = "cancelled"]
         ELSE runs[r]]
  /\ UNCHANGED <<eventControllers, nSinks, llm, reg, data, chat, hooks>>

\* The browser goes away: the readable side is cancelled and every later
\* write to the writer rejects.  Nothing in part_003 listens for it.
ClientDisconnect(k) ==
  /\ sinks[k].open
  /\ sinks' = [sinks EXCEPT ![k].open = FALSE]
  /\ UNCHANGED <<eventControllers, nSinks, runs, llm, reg, data, chat, hooks>>

(* ------------------------ processQueryWithEvents ---------------------- *)
\* finally { setTimeout(() => this.eventControllers.delete(sessionId), 30000) }
Returned(run, outcome) == [run EXCEPT !.pc = "returned", !.outcome = outcome, !.timer = "armed"]

\* POST query-with-events of src/src/server.ts: the API key is checked, the
\* session id is a fresh nanoid(), processQueryWithEvents is started and not
\* awaited, {sessionId} is answered at once.
PostQueryBackground(r, s) ==
  /\ FreeRun(r)
  /\ FreshSid(s)
  /\ \E key \in BOOLEAN :
       runs' = [runs EXCEPT ![r] = IF key
         THEN [NoRun EXCEPT !.kind = "query", !.handler = "bg", !.sid = s, !.pc = "wait",
                            !.hasKey = TRUE, !.status = 200]
         ELSE [NoRun EXCEPT !.kind = "query", !.handler = "bg", !.pc = "done", !.status = 400]]
  /\ UNCHANGED <<eventControllers, sinks, nSinks, llm, reg, data, chat, hooks>>

\* The events of processQueryWithEvents from RUN_STARTED to the first delta;
\* action: detectGovernanceAction(query) found one.
QueryOpening(r, action) ==
  <<Ev("RUN_STARTED", 0)>>
  \o (IF action THEN <<Ev("CUSTOM", 0)>> ELSE <<>>)
  \o <<Ev("TEXT_MESSAGE_START", r), Ev("TEXT_MESSAGE_CONTENT", r)>>

\* processQueryWithEvents after its 500 ms wait: without a controller for the
\* session it returns; otherwise the opening events, up to await getMcpState().
QueryAfterWait(r) ==
  /\ runs[r].kind = "query" /\ runs[r].pc = "wait"
  /\ LET st == EmitterState(runs[r].emitted)
         run == [runs[r] EXCEPT !.waitSink = Seen(eventControllers, runs[r].sid)]
     IN IF ~HasController(eventControllers, runs[r].sid)
          THEN SetStep(r, st, Returned(run, "abandoned"))
          ELSE \E action \in BOOLEAN :
                 SetStep(r, EmitAll(st, runs[r].sid, QueryOpening(r, action)),
                         [run EXCEPT !.pc = "getMcpState"])
  /\ UNCHANGED <<nSinks, llm, reg, data, chat, hooks>>

\* getMcpState() resolved: a delta, generateGovernanceToolCalls (plan), a delta,
\* up to await executeGovernanceTools().
QueryAfterMcpState(r) ==
  /\ runs[r].kind = "query" /\ runs[r].pc = "getMcpState"
  /\ SetStep(r, EmitAll(EmitterState(runs[r].emitted), runs[r].sid,
                  <<Ev("TEXT_MESSAGE_CONTENT", r), Ev("TEXT_MESSAGE_CONTENT", r)>>),
             [runs[r] EXCEPT !.pc = "executeTools", !.stages = Append(@, "plan")])
  /\ UNCHANGED <<nSinks, llm, reg, data, chat, hooks>>

\* Fault: the catch block emits nothing.
QueryCatchSilent(st, sid) == st

\* The catch block of processQueryWithEvents.
QueryCatch(st, sid) == EmitToSession(st, sid, Ev("RUN_ERROR", 0))

\* executeGovernanceTools() resolved; extractGovernanceData either returns (two
\* deltas, up to await claudeFilterResults) or throws (a tool result whose text
\* is the JSON null, a null entry in a proposals list): the catch block.
QueryAfterExecute(r) ==
  /\ runs[r].kind = "query" /\ runs[r].pc = "executeTools"
  /\ LET st == EmitterState(runs[r].emitted) IN
     \E extractThrows \in BOOLEAN :
       IF extractThrows
         THEN SetStep(r, QueryCatch(st, runs[r].sid),
                      Returned([runs[r] EXCEPT !.stages = Append(@, "execute")], "error"))
         ELSE SetStep(r, EmitAll(st, runs[r].sid,
                           <<Ev("TEXT_MESSAGE_CONTENT", r), Ev("TEXT_MESSAGE_CONTENT", r)>>),
                      [runs[r] EXCEPT !.pc = "filter", !.stages = @ \o <<"execute", "extract">>])
  /\ UNCHANGED <<nSinks, llm, reg, data, chat, hooks>>

\* What claudeFilterResults resolves with: rawData itself (every fallback) or
\* the filtered object.
FilterResults == {"rawData", "filtered"}

\* Fault: the analysis is called with rawData whatever the filter returned.
QueryAfterFilterPassesRaw(r) ==
  /\ runs[r].kind = "query" /\ runs[r].pc = "filter"
  /\ \E out \in FilterResults :
       runs' = [runs EXCEPT ![r].pc = "analyze", ![r].stages = Append(@, "filter"),
                            ![r].filterOut = out, ![r].analyzeIn = "rawData"]
  /\ UNCHANGED <<eventControllers, sinks, nSinks, llm, reg, data, chat, hooks>>

\* claudeFilterResults() resolved (it never rejects) with filteredData;
\* claudeAnalyzeResults(filteredData, ...) is called, up to its await.
QueryAfterFilter(r) ==
  /\ runs[r].kind = "query" /\ runs[r].pc = "filter"
  /\ \E out \in FilterResults :
       runs' = [runs EXCEPT ![r].pc = "analyze", ![r].stages = Append(@, "filter"),
                            ![r].filterOut = out, ![r].analyzeIn = out]
  /\ UNCHANGED <<eventControllers, sinks, nSinks, llm, reg, data, chat, hooks>>

\* Fault: the message is closed before its last delta.
QueryClosingEndFirst(r, answer) ==
  <<Ev("TEXT_MESSAGE_END", r)>>
  \o (IF answer THEN <<Ev("TEXT_MESSAGE_CONTENT", r)>> ELSE <<>>)
  \o <<Ev("RUN_FINISHED", 0)>>

\* The events of processQueryWithEvents after the analysis; answer:
\* analysisResult.answer is truthy.
QueryClosing(r, answer) ==
  (IF answer THEN <<Ev("TEXT_MESSAGE_CONTENT", r)>> ELSE <<>>)
  \o <<Ev("TEXT_MESSAGE_END", r), Ev("RUN_FINISHED", 0)>>

\* claudeAnalyzeResults() resolved (it never rejects): the closing events.
QueryAfterAnalyze(r) ==
  /\ runs[r].kind = "query" /\ runs[r].pc = "analyze"
  /\ \E answer \in BOOLEAN :
       SetStep(r, EmitAll(EmitterState(runs[r].emitted), runs[r].sid, QueryClosing(r, answer)),
               Returned([runs[r] EXCEPT !.stages = Append(@, "analyze")], "finished"))
  /\ UNCHANGED <<nSinks, llm, reg, data, chat, hooks>>

\* The 30 s timer a query run arms in its finally.
CleanupTimer(r) ==
  /\ runs[r].timer = "armed"
  /\ eventControllers' = [eventControllers EXCEPT ![runs[r].sid] = NoSink]
  /\ runs' = [runs EXCEPT ![r].timer = "fired"]
  /\ UNCHANGED <<sinks, nSinks, llm, reg, data, chat, hooks>>


(* ----------------------- performSentimentAnalysis --------------------- *)
\* The catch block: the error message is opened (its emit awaited).
SentCatch(st, run, r) ==
  [st |-> EmitToSession(st, run.sid, Ev("TEXT_MESSAGE_START", r)),
   run |-> [run EXCEPT !.pc = "err.start", !.outcome = "error"]]

\* After the wait loop, with a controller for the session: the STARTED custom
\* event, then the key check (throw) or await gatherSentimentData().
SentProceed(st, run, r) ==
  LET st1 == EmitToSession(st, run.sid, Ev("CUSTOM", 0)) IN
  IF ~run.hasKey THEN SentCatch(st1, run, r)
  ELSE [st |-> st1, run |-> [run EXCEPT !.pc = "gather"]]

\* The wait loop's test and what follows it without an await.
SentEnter(st, run, r) ==
  IF ~HasController(st.ec, run.sid) /\ run.attempts < PollAttempts
    THEN [st |-> st, run |-> [run EXCEPT !.pc = "poll"]]
  ELSE LET seen == [run EXCEPT !.waitSink = Seen(st.ec, run.sid)] IN
    IF ~HasController(st.ec, run.sid)
      THEN [st |-> st, run |-> [seen EXCEPT !.pc = "returned", !.outcome = "abandoned"]]
      ELSE SentProceed(st, seen, r)

SetSent(r, res) == SetStep(r, res.st, res.run)

\* One 500 ms wait of the loop is over: attempts++, and the test again.
SentPoll(r) ==
  /\ runs[r].kind = "sentiment" /\ runs[r].pc = "poll"
  /\ SetSent(r, SentEnter(EmitterState(runs[r].emitted), [runs[r] EXCEPT !.attempts = @ + 1], r))
  /\ UNCHANGED <<nSinks, llm, reg, data, chat, hooks>>

\* gatherSentimentData() resolved (it catches its tool errors);
\* claudeAnalyzeSentiment throws on a key that is not an sk-ant- key or on a
\* failing getrecentproposals call, else it returns a result or its fallback:
\* the COMPLETE custom event is emitted and awaited.
SentAfterGather(r) ==
  /\ runs[r].kind = "sentiment" /\ runs[r].pc = "gather"
  /\ LET st == EmitterState(runs[r].emitted) IN
     \E throws \in BOOLEAN :
       SetSent(r, IF throws
         THEN SentCatch(st, [runs[r] EXCEPT !.stages = Append(@, "gather")], r)
         ELSE [st |-> EmitToSession(st, runs[r].sid, Ev("CUSTOM", 0)),
               run |-> [runs[r] EXCEPT !.pc = "complete", !.stages = @ \o <<"gather", "analyze">>]])
  /\ UNCHANGED <<nSinks, llm, reg, data, chat, hooks>>

\* The awaited emit resolved: the next emit of the message sequence, or the return.
SentNext(r) ==
  /\ runs[r].kind = "sentiment"
  /\ runs[r].pc \in {"complete", "msg.start", "msg.content", "msg.end",
                     "err.start", "err.content", "err.end", "err.complete"}
  /\ LET pc == runs[r].pc
         st == EmitterState(runs[r].emitted)
         emit(ev, next) == [st |-> EmitToSession(st, runs[r].sid, ev),
                            run |-> [runs[r] EXCEPT !.pc = next]]
         done == [st |-> st,
                  run |-> [runs[r] EXCEPT !.pc = "returned",
                             !.outcome = IF @ = "error" THEN "error" ELSE "finished"]]
     IN SetSent(r,
          CASE pc = "complete"    -> emit(Ev("TEXT_MESSAGE_START", r), "msg.start")
            [] pc = "msg.start"   -> emit(Ev("TEXT_MESSAGE_CONTENT", r), "msg.content")
            [] pc = "msg.content" -> emit(Ev("TEXT_MESSAGE_END", r), "msg.end")
            [] pc = "msg.end"     -> done
            [] pc = "err.start"   -> emit(Ev("TEXT_MESSAGE_CONTENT", r), "err.content")
            [] pc = "err.content" -> emit(Ev("TEXT_MESSAGE_END", r), "err.end")
            [] pc = "err.end"     -> emit(Ev("CUSTOM", 0), "err.complete")
            [] pc = "err.complete" -> done)
  /\ UNCHANGED <<nSinks, llm, reg, data, chat, hooks>>

(* ------------------------------ handlers ------------------------------ *)
\* POST query-with-events of part_003: a stream of its own is registered under
\* the agent's session id, RUN_STARTED is sent on it, then the query run (a
\* query was given) or the ecosystem sentiment run is awaited.
PostQueryStream(r) ==
  /\ FreeRun(r)
  /\ nSinks < MaxSinks
  /\ LET k == nSinks + 1
         st == [EmitterState(<<>>) EXCEPT !.ec[AgentSid] = k,
                  !.sinks[k] = NewStream(AgentSid, "post", <<Ev("RUN_STARTED", 0)>>, FALSE)]
         run == [NoRun EXCEPT !.handler = "stream", !.sid = AgentSid, !.own = k, !.status = 200]
     IN /\ nSinks' = k
        /\ \E isQuery \in BOOLEAN, key \in BOOLEAN :
             IF isQuery
               THEN SetStep(r, st, [run EXCEPT !.kind = "query", !.pc = "wait", !.hasKey = key])
               ELSE SetSent(r, SentEnter(st, [run EXCEPT !.kind = "sentiment", !.hasKey = key], r))
  /\ UNCHANGED <<llm, reg, data, chat, hooks>>

\* The run the stream handler awaited has returned: send RUN_FINISHED, then
\* finally { await writer.close(); delete(sessionId) }.  close() rejects on a
\* stream that is closed or errored already, and the delete is then not reached.
\* (The handler's catch is dead code: neither run lets an exception out.)
HandlerFinish(r) ==
  /\ runs[r].handler = "stream" /\ runs[r].pc = "returned"
  /\ LET k == runs[r].own
         st == Send(EmitterState(runs[r].emitted), k, Ev("RUN_FINISHED", 0))
     IN SetStep(r, [st EXCEPT !.sinks[k].open = FALSE],
                [runs[r] EXCEPT !.pc = IF sinks[k].open THEN "closing" ELSE "done"])
  /\ UNCHANGED <<nSinks, llm, reg, data, chat, hooks>>

HandlerAfterClose(r) ==
  /\ runs[r].handler = "stream" /\ runs[r].pc = "closing"
  /\ eventControllers' = [eventControllers EXCEPT ![runs[r].sid] = NoSink]
  /\ runs' = [runs EXCEPT ![r].pc = "done"]
  /\ UNCHANGED <<sinks, nSinks, llm, reg, data, chat, hooks>>

\* POST sentiment-analysis: a fresh nanoid() session id, the proposal sentiment
\* run awaited with options that carry no claudeApiKey, then {sessionId}.
PostSentiment(r, s) ==
  /\ FreeRun(r)
  /\ FreshSid(s)
  /\ SetSent(r, SentEnter(EmitterState(<<>>),
       [NoRun EXCEPT !.kind = "sentiment", !.handler = "post", !.sid = s], r))
  /\ UNCHANGED <<nSinks, llm, reg, data, chat, hooks>>

PostSentimentRespond(r) ==
  /\ runs[r].handler = "post" /\ runs[r].pc = "returned"
  /\ runs' = [runs EXCEPT ![r].pc = "done", ![r].status = 200]
  /\ UNCHANGED <<eventControllers, sinks, nSinks, llm, reg, data, chat, hooks>>

(* ---------------------------- specification --------------------------- *)
Init ==
  /\ InitEmitter
  /\ llm = 0
  /\ reg = 0
  /\ data = 0
  /\ chat = 0
  /\ hooks = 0

Next ==
  \/ \E s \in Sessions : GetEvents(s)
  \/ \E k \in SinkIds : KeepAlive(k)
  \/ \E s \in Sessions : GetQueryWithEvents(s)
  \/ \E k \in SinkIds : LegacyKeepAlive(k)
  \/ \E k \in SinkIds : Shutdown(k)
  \/ \E k \in SinkIds : ClientDisconnect(k)
  \/ \E r \in RunIds, s \in Sessions : PostQueryBackground(r, s)
  \/ \E r \in RunIds : PostQueryStream(r)
  \/ \E r \in RunIds, s \in Sessions : PostSentiment(r, s)
  \/ \E r \in RunIds : QueryAfterWait(r)
  \/ \E r \in RunIds : QueryAfterMcpState(r)
  \/ \E r \in RunIds : QueryAfterExecute(r)
  \/ \E r \in RunIds : QueryAfterFilter(r)
  \/ \E r \in RunIds : QueryAfterAnalyze(r)
  \/ \E r \in RunIds : CleanupTimer(r)
  \/ \E r \in RunIds : SentPoll(r)
  \/ \E r \in RunIds : SentAfterGather(r)
  \/ \E r \in RunIds : SentNext(r)
  \/ \E r \in RunIds : HandlerFinish(r)
  \/ \E r \in RunIds : HandlerAfterClose(r)
  \/ \E r \in RunIds : PostSentimentRespond(r)

Spec == Init /\ [][Next]_vars

(* ------------------------- properties of Spec ------------------------- *)
EventTypes == {"RUN_STARTED", "CUSTOM", "TEXT_MESSAGE_START", "TEXT_MESSAGE_CONTENT",
               "TEXT_MESSAGE_END", "RUN_FINISHED", "RUN_ERROR"}

\* The positions in q of the events of one type of message m.
Pos(q, type, m) == {i \in 1..Len(q) : q[i].type = type /\ q[i].mid = m}

\* In q no delta or end of a message precedes its start, no end precedes a delta.
OrderedMsg(q) ==
  \A m \in RunIds :
    /\ \A i \in Pos(q, "TEXT_MESSAGE_START", m) :
         \A j \in Pos(q, "TEXT_MESSAGE_CONTENT", m) \cup Pos(q, "TEXT_MESSAGE_END", m) : i < j
    /\ \A i \in Pos(q, "TEXT_MESSAGE_CONTENT", m) :
         \A j \in Pos(q, "TEXT_MESSAGE_END", m) : i < j

\* In q every delta and end of a message has the start of the message before it.
OpenedFirst(q) ==
  \A m \in RunIds :
    \A j \in Pos(q, "TEXT_MESSAGE_CONTENT", m) \cup Pos(q, "TEXT_MESSAGE_END", m) :
      \E i \in Pos(q, "TEXT_MESSAGE_START", m) : i < j

\* The events of message m in q, in order, as plain events.
OfMessage(q, m) ==
  LET sel == SelectSeq(q, LAMBDA e : e.mid = m)
  IN [i \in 1..Len(sel) |-> Ev(sel[i].type, sel[i].mid)]

\* The entries of a run's history that were written to sink k.
WrittenTo(q, k) == SelectSeq(q, LAMBDA e : e.to = k)

\* C1: for one messageId, TEXT_MESSAGE_START is emitted before any
\* TEXT_MESSAGE_CONTENT and every TEXT_MESSAGE_CONTENT before TEXT_MESSAGE_END;
\* what a sink received of the message is, in the same order, what the run
\* emitted while that sink was registered.
C1_MessageOrder ==
  /\ \A r \in RunIds : OrderedMsg(runs[r].emitted) /\ OpenedFirst(runs[r].emitted)
  /\ \A k \in SinkIds :
       /\ OrderedMsg(sinks[k].stream)
       /\ \A r \in RunIds :
            OfMessage(sinks[k].stream, r) = OfMessage(WrittenTo(runs[r].emitted, k), r)

\* A sink has received the start, a delta and the end of one message.
C1_Witness ==
  \E k \in SinkIds, m \in RunIds :
    /\ Pos(sinks[k].stream, "TEXT_MESSAGE_START", m) # {}
    /\ Pos(sinks[k].stream, "TEXT_MESSAGE_CONTENT", m) # {}
    /\ Pos(sinks[k].stream, "TEXT_MESSAGE_END", m) # {}

HasReturned(r) == runs[r].pc \in {"returned", "closing", "done"} /\ runs[r].kind # "none"

\* C2: a run emits TEXT_MESSAGE_START at most once for a messageId, and a
\* run that emitted it and has returned - also one that ended with RUN_ERROR -
\* emitted exactly one TEXT_MESSAGE_END after it.
C2_StartClosedOnce ==
  \A r \in RunIds : \A m \in RunIds :
    LET q == runs[r].emitted IN
    /\ Cardinality(Pos(q, "TEXT_MESSAGE_START", m)) <= 1
    /\ (HasReturned(r) /\ Pos(q, "TEXT_MESSAGE_START", m) # {}) =>
         /\ Cardinality(Pos(q, "TEXT_MESSAGE_END", m)) = 1
         /\ \A i \in Pos(q, "TEXT_MESSAGE_START", m) :
              \A j \in Pos(q, "TEXT_MESSAGE_END", m) : i < j

\* A run that opened its message has ended in the catch block.
C2_Witness ==
  \E r \in RunIds :
    /\ HasReturned(r) /\ runs[r].outcome = "error"
    /\ Pos(runs[r].emitted, "TEXT_MESSAGE_START", r) # {}

\* C3: emitToSession for a session with no registered sink, or with a null
\* session id, raises nothing, writes to no stream and leaves the registry and
\* every stream as they were; the event is not kept for a later sink: a sink
\* holds of a message only the events written to it when they were emitted.
C3_DroppedEmitIsNoOp ==
  /\ \A s \in Sessions \cup {NullSid}, type \in EventTypes, m \in {0} \cup RunIds :
       (s = NullSid \/ eventControllers[s] = NoSink) =>
         LET out == EmitToSession(EmitterState(<<>>), s, Ev(type, m))
         IN out.ec = eventControllers /\ out.sinks = sinks /\ ~out.threw
  /\ \A r \in RunIds, k \in SinkIds :
       Len(OfMessage(sinks[k].stream, r)) = Len(OfMessage(WrittenTo(runs[r].emitted, k), r))

\* A run has emitted an event that was dropped, and a sink was registered for
\* its session afterwards.
C3_Witness ==
  \E r \in RunIds :
    /\ \E i \in 1..Len(runs[r].emitted) : runs[r].emitted[i].to = NoSink
    /\ eventControllers[runs[r].sid] # NoSink

NumProposals == 2
NumDiscussions == 1

\* let retries = 3
Retries == 3
\* claudeResponse.status === 529
Overloaded == 529
\* Math.pow(2, i) * 1000
BaseDelay == 1000
\* fetch() rejects: no response, no status
FetchRejected == 0

PIds == 1..NumProposals
DIds == 1..NumDiscussions
Stages == {"filter", "analyze"}
Statuses == {200, 500, Overloaded}
Responses == Statuses \cup {FetchRejected}

\* What extractGovernanceData returns: proposals, discussions and the cross
\* references between them (pairs <<proposal_id, discussion_id>>); no explanation.
RawData ==
  UNION {{[proposals |-> p, discussions |-> d, crossReferences |-> x, explanation |-> "undefined"] :
            x \in SUBSET (p \X d)} : p \in SUBSET PIds, d \in SUBSET DIds}

\* The body of a successful response to the filter request: one that cannot be
\* read (json() rejects, no content[0]), text without {...}, text whose {...}
\* does not parse, or a JSON object with or without each of its members.
NoBody == [kind |-> "none", hasP |-> FALSE, pids |-> {}, hasD |-> FALSE, dids |-> {},
           explanation |-> "undefined"]
FilterBodies ==
  {[NoBody EXCEPT !.kind = k] : k \in {"unreadable", "noJson", "badJson"}}
  \cup {[kind |-> "object", hasP |-> TRUE, pids |-> p, hasD |-> TRUE, dids |-> d, explanation |-> e] :
          p \in SUBSET PIds, d \in SUBSET DIds, e \in {"undefined", "text"}}
  \cup {[kind |-> "object", hasP |-> FALSE, pids |-> {}, hasD |-> TRUE, dids |-> d, explanation |-> e] :
          d \in SUBSET DIds, e \in {"undefined", "text"}}
  \cup {[kind |-> "object", hasP |-> TRUE, pids |-> p, hasD |-> FALSE, dids |-> {}, explanation |-> e] :
          p \in SUBSET PIds, e \in {"undefined", "text"}}
  \cup {[kind |-> "object", hasP |-> FALSE, pids |-> {}, hasD |-> FALSE, dids |-> {}, explanation |-> e] :
          e \in {"undefined", "text"}}

\* The body of a successful response to the analysis request.
AnalyzeBodies ==
  {[kind |-> k, answer |-> "undefined", analysis |-> "undefined"] :
     k \in {"unreadable", "noJson", "badJson"}}
  \cup {[kind |-> "object", answer |-> a, analysis |-> n] :
          a \in {"undefined", "null", "text"}, n \in {"undefined", "object"}}

\* An outcome of a call: the value returned, or an exception that leaves it.
Returns(v) == [raised |-> FALSE, value |-> v]
Raises(v) == [raised |-> TRUE, value |-> v]

\* Math.pow(2, i) * 1000
Delay(i) == (2 ^ i) * BaseDelay

\* Fault: every failing status is retried.
LoopStepRetryAny(status, i) ==
  IF status = FetchRejected THEN "throw"
  ELSE IF status = 200 THEN "break"
  ELSE IF i < Retries - 1 THEN "retry"
  ELSE "giveUp"

\* One turn of the retry loop after fetch settled: ok -> break; 529 on any but
\* the last turn -> wait and continue; any other response -> give up.
LoopStep(status, i) ==
  IF status = FetchRejected THEN "throw"
  ELSE IF status = 200 THEN "break"
  ELSE IF status = Overloaded /\ i < Retries - 1 THEN "retry"
  ELSE "giveUp"

\* Fault: the analysis falls back to an object without members.
AnalyzeFallbackEmpty == [answer |-> "undefined", analysis |-> "undefined"]

\* return { answer: null, analysis: null }
AnalyzeFallback == [answer |-> "null", analysis |-> "null"]

\* Fault: a request that is given up raises.
GiveUpRaises(stage, input) == Raises(input)

\* The loop gives up: the filter returns rawData, the analysis its fallback.
GiveUp(stage, input) ==
  IF stage = "filter" THEN Returns(input) ELSE Returns(AnalyzeFallback)

\* The outer catch of either function.
OuterCatch(stage, input) ==
  IF stage = "filter" THEN Returns(input) ELSE Returns(AnalyzeFallback)

\* Fault: an absent id list is read as an empty one.
ApplyFilterLenient(raw, instr) ==
  Returns([proposals |-> raw.proposals \cap instr.pids,
           discussions |-> raw.discussions \cap instr.dids,
           crossReferences |-> {x \in raw.crossReferences : x[1] \in instr.pids /\ x[2] \in instr.dids},
           explanation |-> instr.explanation])

\* The three filters of claudeFilterResults on the parsed object.  An absent
\* list is undefined: .includes on it throws when the callback runs, that is
\* when the array filtered has an element (&& skips its right side).
ApplyFilter(raw, instr) ==
  LET throwsP == ~instr.hasP /\ raw.proposals # {}
      throwsD == ~instr.hasD /\ raw.discussions # {}
      throwsX == \E x \in raw.crossReferences :
                   ~instr.hasP \/ (x[1] \in instr.pids /\ ~instr.hasD)
  IN IF throwsP \/ throwsD \/ throwsX
       THEN OuterCatch("filter", raw)
       ELSE Returns([proposals |-> raw.proposals \cap instr.pids,
                     discussions |-> raw.discussions \cap instr.dids,
                     crossReferences |-> {x \in raw.crossReferences :
                                            x[1] \in instr.pids /\ x[2] \in instr.dids},
                     explanation |-> instr.explanation])

\* claudeFilterResults once the loop left with an ok response.
ReadFilter(raw, body) ==
  IF body.kind = "unreadable" THEN OuterCatch("filter", raw)
  ELSE IF body.kind \in {"noJson", "badJson"} THEN Returns(raw)
  ELSE ApplyFilter(raw, body)

\* claudeAnalyzeResults once the loop left with an ok response.
ReadAnalysis(body) ==
  IF body.kind = "unreadable" THEN OuterCatch("analyze", body)
  ELSE IF body.kind \in {"noJson", "badJson"} THEN Returns([answer |-> "text", analysis |-> "null"])
  ELSE Returns([answer |-> body.answer, analysis |-> body.analysis])

\* One call (history): the responses to its requests, the delays it waited,
\* how it ended (rejected: fetch threw; status: given up on a failing status;
\* read: an ok response was read), whether an exception left it.
NoCall == [responses |-> <<>>, delays |-> <<>>, end |-> "none", raised |-> FALSE]
NoAnalysis == [answer |-> "none", analysis |-> "none"]
NoAnalyzeBody == [kind |-> "none", answer |-> "undefined", analysis |-> "undefined"]

InitLLM ==
  /\ InitEmitter
  /\ reg = 0
  /\ data = 0
  /\ chat = 0
  /\ hooks = 0
  /\ llm \in {[caller |-> c, raw |-> d, stage |-> "filter", pc |-> "request", i |-> 0,
               calls |-> [s \in Stages |-> NoCall], fbody |-> NoBody, abody |-> NoAnalyzeBody,
               filtered |-> d, analysis |-> NoAnalysis, terminal |-> "none", message |-> "none"] :
                c \in {"events", "sync"}, d \in RawData}

\* The caller's catch: RUN_ERROR on the event stream, status 500 on POST query.
CallerCatch(l) ==
  [l EXCEPT !.stage = "done", !.pc = "done",
            !.terminal = IF l.caller = "events" THEN "RUN_ERROR" ELSE "500"]

\* The caller after the analysis: the answer if it is truthy (else no delta,
\* or the "Found n proposals" message), then RUN_FINISHED or status 200.
CallerFinish(l) ==
  [l EXCEPT !.stage = "done", !.pc = "done",
            !.terminal = IF l.caller = "events" THEN "RUN_FINISHED" ELSE "200",
            !.message = IF l.analysis.answer = "text" THEN "answer" ELSE "default"]

\* The awaited call settles with outcome out.
FinishCall(l, end, out) ==
  LET l1 == [l EXCEPT !.calls[l.stage].end = end, !.calls[l.stage].raised = out.raised]
  IN IF out.raised THEN CallerCatch(l1)
     ELSE IF l.stage = "filter"
       THEN [l1 EXCEPT !.stage = "analyze", !.pc = "request", !.i = 0, !.filtered = out.value]
     ELSE CallerFinish([l1 EXCEPT !.analysis = out.value])

\* The input of the call in progress.
CallInput(l) == IF l.stage = "filter" THEN l.raw ELSE l.filtered

\* fetch() of the loop's turn i settles.
LlmRequest ==
  /\ llm.stage \in Stages /\ llm.pc = "request"
  /\ \E status \in Responses :
       LET l1 == [llm EXCEPT !.calls[llm.stage].responses = Append(@, status)]
           step == LoopStep(status, llm.i)
       IN llm' = CASE step = "break" -> [l1 EXCEPT !.pc = "read"]
                   [] step = "retry" ->
                        [l1 EXCEPT !.pc = "delay", !.calls[llm.stage].delays = Append(@, Delay(llm.i))]
                   [] step = "giveUp" -> FinishCall(l1, "status", GiveUp(llm.stage, CallInput(llm)))
                   [] step = "throw" -> FinishCall(l1, "rejected", OuterCatch(llm.stage, CallInput(llm)))
  /\ UNCHANGED <<eventControllers, sinks, nSinks, runs, reg, data, chat, hooks>>

\* The delay before the next request is over: continue, i++.
LlmDelayOver ==
  /\ llm.stage \in Stages /\ llm.pc = "delay"
  /\ llm' = [llm EXCEPT !.pc = "request", !.i = @ + 1]
  /\ UNCHANGED <<eventControllers, sinks, nSinks, runs, reg, data, chat, hooks>>

\* The ok response of the filter request is read and applied.
LlmReadFilter ==
  /\ llm.stage = "filter" /\ llm.pc = "read"
  /\ \E body \in FilterBodies :
       llm' = FinishCall([llm EXCEPT !.fbody = body], "read", ReadFilter(llm.raw, body))
  /\ UNCHANGED <<eventControllers, sinks, nSinks, runs, reg, data, chat, hooks>>

\* The ok response of the analysis request is read.
LlmReadAnalysis ==
  /\ llm.stage = "analyze" /\ llm.pc = "read"
  /\ \E body \in AnalyzeBodies :
       llm' = FinishCall([llm EXCEPT !.abody = body], "read", ReadAnalysis(body))
  /\ UNCHANGED <<eventControllers, sinks, nSinks, runs, reg, data, chat, hooks>>

NextLLM ==
  \/ LlmRequest
  \/ LlmDelayOver
  \/ LlmReadFilter
  \/ LlmReadAnalysis

SpecLLM == InitLLM /\ [][NextLLM]_vars

C6_ExhaustionDegrades ==
  /\ \A s \in Stages :
       llm.calls[s].responses = <<529, 529, 529>> =>
         /\ llm.calls[s].end = "status" /\ ~llm.calls[s].raised
         /\ s = "filter" => llm.filtered = llm.raw
         /\ s = "analyze" => llm.analysis = [answer |-> "null", analysis |-> "null"]
  /\ llm.terminal \notin {"RUN_ERROR", "500"}
  /\ llm.stage = "done" => llm.terminal = (IF llm.caller = "events" THEN "RUN_FINISHED" ELSE "200")

\* Both calls of a query were overloaded three times and the query ended.
C6_Witness ==
  /\ \A s \in Stages : llm.calls[s].responses = <<529, 529, 529>>
  /\ llm.stage = "done"
  /\ llm.raw.proposals # {}

\* The filter call failed: no response, a failing status, a body that cannot
\* be read, text that holds no JSON object, or an object with neither id list.
FilterFailed ==
  \/ llm.calls["filter"].end \in {"rejected", "status"}
  \/ /\ llm.calls["filter"].end = "read"
     /\ \/ llm.fbody.kind \in {"unreadable", "noJson", "badJson"}
        \/ llm.fbody.kind = "object" /\ ~llm.fbody.hasP /\ ~llm.fbody.hasD

\* C7: the filter never raises, and when it failed it returned the input
\* data: the same proposals, discussions and cross references.
C7_FilterFailsOpen ==
  /\ ~llm.calls["filter"].raised
  /\ FilterFailed =>
       /\ llm.filtered.proposals = llm.raw.proposals
       /\ llm.filtered.discussions = llm.raw.discussions
       /\ llm.filtered.crossReferences = llm.raw.crossReferences
       /\ (llm.raw.proposals # {} \/ llm.raw.discussions # {} \/ llm.fbody.kind # "object")
            => llm.filtered = llm.raw

\* The filter got an object without the id lists for an input that has
\* proposals, discussions and a cross reference.
C7_Witness ==
  /\ llm.calls["filter"].end = "read"
  /\ llm.fbody.kind = "object" /\ ~llm.fbody.hasP /\ ~llm.fbody.hasD
  /\ llm.raw.crossReferences # {}
  /\ llm.stage = "analyze"

\* C8: the analysis never raises; when its request failed (no response, a
\* failing status) or its response could not be read it returned exactly
\* {answer: null, analysis: null}.
C8_AnalyzeNeverRaises ==
  /\ ~llm.calls["analyze"].raised
  /\ (\/ llm.calls["analyze"].end \in {"rejected", "status"}
      \/ llm.calls["analyze"].end = "read" /\ llm.abody.kind = "unreadable") =>
       llm.analysis = [answer |-> "null", analysis |-> "null"]

\* The response to the analysis request could not be read.
C8_Witness ==
  /\ llm.calls["analyze"].end = "read"
  /\ llm.abody.kind = "unreadable"
  /\ llm.stage = "done"

(* ========================= connection registry ========================= *)
(* SpecReg: this.clients and this.serverConfigs with the add-mcp,          *)
(* remove-mcp and mcp-state requests, each a sequence of steps between its *)
(* awaits, so that requests interleave as they do in the agent.            *)
NumServers == 2
MaxReqs == 3

Names == 1..NumServers
ReqIds == 1..MaxReqs
\* Map.get(name) === undefined
NoClient == 0

\* A request slot (history: what the request met and what it answered).
NoReq == [kind |-> "none", name |-> 0, pc |-> "idle", status |-> 0, client |-> NoClient,
          idx |-> 0, servers |-> [n \in Names |-> "absent"],
          fresh |-> FALSE, opened |-> FALSE, connected |-> FALSE, listed |-> FALSE,
          stored |-> FALSE, addedBefore |-> {}, okBefore |-> {},
          deleted |-> FALSE, pendingBefore |-> {}, tools |-> {},
          outcomes |-> [n \in Names |-> "none"],
          gov |-> FALSE, resolved |-> FALSE, seenState |-> "none", other |-> 0,
          args |-> "caller", invoked |-> <<>>,
          plan |-> <<>>, at |-> 0, results |-> <<>>, fates |-> <<>>]

\* clients: name -> client (NoClient: no entry); entries: the entry list of the
\* clients Map in insertion order, a deleted entry left as a hole (0), which is
\* what a running "for ... of this.clients" walks; configs: the keys of
\* serverConfigs.  History: added, okAdded: the names for which an add with a
\* fresh name has completed / completed with status 200; removeAsked: the
\* names a remove-mcp was asked for; live: the <<name, client>> connections
\* whose handshake succeeded and that no close() has closed; reported: the
\* state the last mcp-state listing gave for the name's stored client.
InitReg ==
  /\ InitEmitter
  /\ llm = 0
  /\ data = 0
  /\ chat = 0
  /\ hooks = 0
  /\ reg = [clients |-> [n \in Names |-> NoClient], configs |-> {}, entries |-> <<>>,
            nClients |-> 0, reqs |-> [q \in ReqIds |-> NoReq],
            added |-> {}, okAdded |-> {}, removeAsked |-> {}, live |-> {},
            reported |-> [n \in Names |-> "none"]]

FreeReq(q) == reg.reqs[q].kind = "none" /\ \A p \in ReqIds : p < q => reg.reqs[p].kind # "none"

\* this.clients.set(name, client); this.serverConfigs.set(name, config)
MapSet(g, n, c) ==
  [g EXCEPT !.clients[n] = c,
            !.reported[n] = "none",
            !.configs = @ \cup {n},
            !.entries = IF g.clients[n] = NoClient THEN Append(@, n) ELSE @]

\* Fault: the client is deleted, its config is kept.
MapDeleteKeepsConfig(g, n) ==
  [g EXCEPT !.clients[n] = NoClient,
            !.reported[n] = "none",
            !.entries = [j \in 1..Len(@) |-> IF @[j] = n THEN 0 ELSE @[j]]]

\* this.clients.delete(name); this.serverConfigs.delete(name)
MapDelete(g, n) ==
  [g EXCEPT !.clients[n] = NoClient,
            !.reported[n] = "none",
            !.configs = @ \ {n},
            !.entries = [j \in 1..Len(@) |-> IF @[j] = n THEN 0 ELSE @[j]]]

\* The Map iterator's next entry after position idx (0: the walk is over).
NextEntry(entries, idx) ==
  LET rest == {j \in (idx + 1)..Len(entries) : entries[j] # 0}
  IN IF rest = {} THEN 0 ELSE CHOOSE j \in rest : \A k \in rest : j <= k

\* History: an add has completed.
Completed(g, req) ==
  [g EXCEPT !.added = IF req.fresh THEN @ \cup {req.name} ELSE @,
            !.okAdded = IF req.fresh /\ req.status = 200 THEN @ \cup {req.name} ELSE @]

SetReq(q, g, req) == reg' = [g EXCEPT !.reqs[q] = req]

\* Fault: the catch of addMCPServer answers as the success path does.
AddFailedOk(req) == [req EXCEPT !.pc = "done", !.status = 200]

\* The catch of addMCPServer: status 500, "Failed to connect to ... server".
AddFailed(req) == [req EXCEPT !.pc = "done", !.status = 500]

\* Fault: the name is registered as soon as the transport is made.
OpenedStoresPlaceholder(g, req) ==
  [MapSet(g, req.name, g.nClients + 1) EXCEPT !.nClients = @ + 1]

\* The transport and the client are made: nothing is stored yet.
Opened(g, req) == [g EXCEPT !.nClients = @ + 1]

\* POST add-mcp {name, url}: new URL(config.url) throws on a malformed url (the
\* catch); else the transport and the client are made, up to await connect().
AddMcp(q, n) ==
  /\ FreeReq(q)
  /\ \E validUrl \in BOOLEAN :
       LET req == [NoReq EXCEPT !.kind = "add", !.name = n, !.fresh = (reg.clients[n] = NoClient)]
       IN IF validUrl
            THEN SetReq(q, Opened(reg, req),
                        [req EXCEPT !.pc = "connect", !.opened = TRUE, !.client = reg.nClients + 1])
            ELSE SetReq(q, Completed(reg, AddFailed(req)), AddFailed(req))
  /\ UNCHANGED <<eventControllers, sinks, nSinks, runs, llm, data, chat, hooks>>

\* client.connect(transport) settled: the handshake succeeded (up to await
\* listTools()) or failed (the catch).
AddConnected(q) ==
  /\ reg.reqs[q].kind = "add" /\ reg.reqs[q].pc = "connect"
  /\ \E ok \in BOOLEAN :
       IF ok
         THEN SetReq(q, [reg EXCEPT !.live = @ \cup {<<reg.reqs[q].name, reg.reqs[q].client>>}],
                     [reg.reqs[q] EXCEPT !.pc = "listTools", !.connected = TRUE])
         ELSE SetReq(q, Completed(reg, AddFailed(reg.reqs[q])), AddFailed(reg.reqs[q]))
  /\ UNCHANGED <<eventControllers, sinks, nSinks, runs, llm, data, chat, hooks>>

\* The test listing settled, either way (a failure is only logged): both maps
\* are set, status 200.
AddListed(q) ==
  /\ reg.reqs[q].kind = "add" /\ reg.reqs[q].pc = "listTools"
  /\ \E ok \in BOOLEAN :
       LET req == [reg.reqs[q] EXCEPT !.pc = "done", !.status = 200, !.listed = ok, !.stored = TRUE]
       IN SetReq(q, Completed(MapSet(reg, req.name, req.client), req), req)
  /\ UNCHANGED <<eventControllers, sinks, nSinks, runs, llm, data, chat, hooks>>

\* Fault: an unknown serverId is answered as a removal, the name unregistered.
NotFoundDeletes(g, req) ==
  [g |-> MapDelete([g EXCEPT !.configs = {}], req.name),
   req |-> [req EXCEPT !.pc = "done", !.status = 200]]

\* remove-mcp without an entry for serverId: status 404, nothing touched.
NotFound(g, req) == [g |-> g, req |-> [req EXCEPT !.pc = "done", !.status = 404]]

\* POST remove-mcp {serverId}: without an entry 404, else up to await client.close().
RemoveMcp(q, n) ==
  /\ FreeReq(q)
  /\ LET g == [reg EXCEPT !.removeAsked = @ \cup {n}]
         req == [NoReq EXCEPT !.kind = "remove", !.name = n]
     IN IF reg.clients[n] # NoClient
          THEN SetReq(q, g, [req EXCEPT !.pc = "closing", !.client = reg.clients[n]])
          ELSE SetReq(q, NotFound(g, req).g, NotFound(g, req).req)
  /\ UNCHANGED <<eventControllers, sinks, nSinks, runs, llm, data, chat, hooks>>

\* client.close() settled: both entries are deleted and 200 answered, or the
\* rejection leaves the handler and nothing is deleted.
RemoveClosed(q) ==
  /\ reg.reqs[q].kind = "remove" /\ reg.reqs[q].pc = "closing"
  /\ \E ok \in BOOLEAN :
       IF ok
         THEN SetReq(q, [MapDelete(reg, reg.reqs[q].name) EXCEPT
                           !.live = @ \ {<<reg.reqs[q].name, reg.reqs[q].client>>}],
                     [reg.reqs[q] EXCEPT !.pc = "done", !.status = 200, !.deleted = TRUE])
         ELSE SetReq(q, reg, [reg.reqs[q] EXCEPT !.pc = "done", !.status = 500])
  /\ UNCHANGED <<eventControllers, sinks, nSinks, runs, llm, data, chat, hooks>>

\* Fault: a server whose listing fails is left out of servers.
DescribeSkipsFailed(ok) == IF ok THEN "ready" ELSE "absent"

\* mcp-state: servers[serverName].state after listTools() of its client settled.
Describe(ok) == IF ok THEN "ready" ELSE "error"

\* Fault: the walk ends with status 500 at the first listing that fails.
WalkStopsOnError(g, req) ==
  LET j == NextEntry(g.entries, req.idx)
  IN IF req.name # 0 /\ req.servers[req.name] = "error"
       THEN [req EXCEPT !.pc = "done", !.status = 500]
     ELSE IF j = 0 THEN [req EXCEPT !.pc = "done", !.status = 200]
     ELSE [req EXCEPT !.pc = "listing", !.idx = j, !.name = g.entries[j],
                      !.client = g.clients[g.entries[j]]]

\* The walk of mcp-state moves to the next entry of this.clients (up to await
\* client.listTools()), or ends: status 200 with the servers collected.
Walk(g, req) ==
  LET j == NextEntry(g.entries, req.idx)
  IN IF j = 0 THEN [req EXCEPT !.pc = "done", !.status = 200]
     ELSE [req EXCEPT !.pc = "listing", !.idx = j, !.name = g.entries[j],
                      !.client = g.clients[g.entries[j]]]

\* History: the names with an add whose handshake is in progress.
Connecting(g) ==
  {n \in Names : \E p \in DOMAIN g.reqs :
     g.reqs[p].kind = "add" /\ g.reqs[p].name = n /\ g.reqs[p].pc = "connect"}

\* GET mcp-state.
McpState(q) ==
  /\ FreeReq(q)
  /\ SetReq(q, reg, Walk(reg, [NoReq EXCEPT !.kind = "state", !.addedBefore = reg.added,
                                            !.okBefore = reg.okAdded,
                                            !.pendingBefore = Connecting(reg)]))
  /\ UNCHANGED <<eventControllers, sinks, nSinks, runs, llm, data, chat, hooks>>

\* listTools() of the walk's current client settled.
McpStateListed(q) ==
  /\ reg.reqs[q].kind = "state" /\ reg.reqs[q].pc = "listing"
  /\ \E ok \in BOOLEAN :
       SetReq(q, [reg EXCEPT !.reported[reg.reqs[q].name] =
                         IF reg.clients[reg.reqs[q].name] = reg.reqs[q].client
                           THEN Describe(ok) ELSE @],
              Walk(reg, [reg.reqs[q] EXCEPT
              !.servers[reg.reqs[q].name] = Describe(ok),
              !.tools = IF ok THEN @ \cup {reg.reqs[q].name} ELSE @,
              !.outcomes[reg.reqs[q].name] = IF ok THEN "ok" ELSE "failed"]))
  /\ UNCHANGED <<eventControllers, sinks, nSinks, runs, llm, data, chat, hooks>>

\* History: no add of the name has stored a client.
NeverStored(n) ==
  \A p \in ReqIds : ~(reg.reqs[p].kind = "add" /\ reg.reqs[p].name = n /\ reg.reqs[p].stored)

\* ---- Tool calls: POST call-tool and executeGovernanceTools ----
\* The two server roles the code recognises by name: a name containing
\* "discourse" or "near", and a name containing "stake", "hos" or "bitte".
Discourse == 1
HoS == 2

\* generateGovernanceToolCalls: two calls on the Discourse server when the
\* state lists one, one on the House of Stake server when the state lists it
\* with a tool whose name contains "proposal".
GenerateGovernanceToolCalls(servers, hasProposal) ==
  (IF Discourse \in servers
     THEN << [serverId |-> Discourse, toolName |-> "get_latest_topics"],
             [serverId |-> Discourse, toolName |-> "search_posts"] >>
     ELSE << >>)
  \o (IF HoS \in servers /\ hasProposal
        THEN << [serverId |-> HoS, toolName |-> "getrecentproposals"] >>
        ELSE << >>)

\* The for loop of executeGovernanceTools from its position req.at: a call
\* whose server is not registered is passed over (continue), the first call
\* whose server is registered is issued, the end of the list returns.
RECURSIVE ExecuteLoop(_, _)
ExecuteLoop(g, req) ==
  IF req.at > Len(req.plan) THEN [req EXCEPT !.pc = "done", !.status = 200]
  ELSE IF g.clients[req.plan[req.at].serverId] = NoClient
    THEN ExecuteLoop(g, [req EXCEPT !.at = @ + 1, !.fates = Append(@, "absent")])
    ELSE [req EXCEPT !.pc = "calling",
                     !.client = g.clients[req.plan[req.at].serverId],
                     !.invoked = Append(@, [server |-> req.plan[req.at].serverId,
                                            tool |-> req.plan[req.at].toolName,
                                            args |-> "planned"])]

ExecuteSettledAbortsOnFailure(g, req, ok) ==
  IF ok
    THEN ExecuteLoop(g, [req EXCEPT !.results = Append(@, [call |-> req.at, success |-> TRUE]),
                                    !.at = @ + 1])
    ELSE [req EXCEPT !.results = Append(@, [call |-> req.at, success |-> FALSE]),
                     !.pc = "done", !.status = 200]

\* client.callTool of the current call settled: its result is pushed with
\* success true, its error with success false, and the loop goes on.
ExecuteSettled(g, req, ok) ==
  ExecuteLoop(g, [req EXCEPT !.results = Append(@, [call |-> req.at, success |-> ok]),
                             !.at = @ + 1])

\* The query pipeline has its MCP state and plans and starts its tool calls.
\* The state lists servers that were registered during its walk.
ExecuteGovernanceTools(q) ==
  /\ FreeReq(q)
  /\ \E servers \in SUBSET Names, hasProposal \in BOOLEAN :
       /\ \A n \in servers : ~NeverStored(n)
       /\ hasProposal => HoS \in servers
       /\ SetReq(q, reg, ExecuteLoop(reg,
            [NoReq EXCEPT !.kind = "execute", !.at = 1,
                          !.plan = GenerateGovernanceToolCalls(servers, hasProposal)]))
  /\ UNCHANGED <<eventControllers, sinks, nSinks, runs, llm, data, chat, hooks>>

ExecuteCalled(q) ==
  /\ reg.reqs[q].kind = "execute" /\ reg.reqs[q].pc = "calling"
  /\ \E ok \in BOOLEAN :
       SetReq(q, reg, ExecuteSettled(reg, [reg.reqs[q] EXCEPT !.fates = Append(@, IF ok THEN "ok" ELSE "failed")], ok))
  /\ UNCHANGED <<eventControllers, sinks, nSinks, runs, llm, data, chat, hooks>>

ResolvesGiven(g, serverId) == serverId # 0

\* !serverId || !this.clients.has(serverId), negated (0: no serverId in the body).
Resolves(g, serverId) == serverId # 0 /\ g.clients[serverId] # NoClient

\* enhanceGovernanceContext's choice of the server to cross-reference: the
\* House of Stake server for a Discourse call, the Discourse server for a
\* House of Stake call, when it is registered (0: none).
CrossServer(g, serverId) ==
  IF serverId = Discourse /\ g.clients[HoS] # NoClient THEN HoS
  ELSE IF serverId = HoS /\ g.clients[Discourse] # NoClient THEN Discourse
  ELSE 0

CrossTool(serverId) == IF serverId = Discourse THEN "get_proposal" ELSE "search_posts"

EnhancedArgsAlways(ok) == "enhanced"

\* The arguments enhanceGovernanceContext returns: the caller's with the
\* context added when the cross-reference call succeeded, the caller's own
\* when it failed.
EnhancedArgs(ok) == IF ok THEN "enhanced" ELSE "caller"

\* client.callTool({name: toolName, arguments: enhancedArgs}) is issued.
Forward(req, args) ==
  [req EXCEPT !.pc = "calling", !.args = args,
              !.invoked = Append(@, [server |-> req.name, tool |-> "named", args |-> args])]

\* POST call-tool once its body is read. gov: isGovernanceQuery holds and
\* the arguments carry a proposal id.
CallTool(q, serverId, gov) ==
  /\ FreeReq(q)
  /\ LET req == [NoReq EXCEPT !.kind = "call", !.name = serverId, !.gov = gov,
                   !.resolved = serverId # 0 /\ reg.clients[serverId] # NoClient,
                   !.seenState = IF serverId = 0 THEN "none" ELSE reg.reported[serverId],
                   !.client = IF serverId = 0 THEN NoClient ELSE reg.clients[serverId]]
     IN IF ~Resolves(reg, serverId)
          THEN SetReq(q, reg, [req EXCEPT !.pc = "done", !.status = 400])
        ELSE IF gov /\ CrossServer(reg, serverId) # 0
          THEN SetReq(q, reg, [req EXCEPT !.pc = "enhancing",
                 !.other = CrossServer(reg, serverId),
                 !.invoked = Append(@, [server |-> CrossServer(reg, serverId),
                                        tool |-> CrossTool(serverId), args |-> "own"])])
        ELSE SetReq(q, reg, Forward(req, "caller"))
  /\ UNCHANGED <<eventControllers, sinks, nSinks, runs, llm, data, chat, hooks>>

\* The cross-reference call settled.
CallToolEnhanced(q) ==
  /\ reg.reqs[q].kind = "call" /\ reg.reqs[q].pc = "enhancing"
  /\ \E ok \in BOOLEAN :
       SetReq(q, reg, Forward([reg.reqs[q] EXCEPT !.fates = Append(@, IF ok THEN "ok" ELSE "failed")],
                              EnhancedArgs(ok)))
  /\ UNCHANGED <<eventControllers, sinks, nSinks, runs, llm, data, chat, hooks>>

\* The forwarded call settled: 200 with the upstream result, 500 with its error.
CallToolReturned(q) ==
  /\ reg.reqs[q].kind = "call" /\ reg.reqs[q].pc = "calling"
  /\ \E ok \in BOOLEAN :
       SetReq(q, reg, [reg.reqs[q] EXCEPT !.pc = "done",
                                          !.status = IF ok THEN 200 ELSE 500])
  /\ UNCHANGED <<eventControllers, sinks, nSinks, runs, llm, data, chat, hooks>>

NextReg ==
  \/ \E q \in ReqIds, n \in Names : AddMcp(q, n)
  \/ \E q \in ReqIds : AddConnected(q)
  \/ \E q \in ReqIds : AddListed(q)
  \/ \E q \in ReqIds, n \in Names : RemoveMcp(q, n)
  \/ \E q \in ReqIds : RemoveClosed(q)
  \/ \E q \in ReqIds : McpState(q)
  \/ \E q \in ReqIds : McpStateListed(q)
  \/ \E q \in ReqIds : ExecuteGovernanceTools(q)
  \/ \E q \in ReqIds : ExecuteCalled(q)
  \/ \E q \in ReqIds, n \in Names \cup {0}, gov \in BOOLEAN : CallTool(q, n, gov)
  \/ \E q \in ReqIds : CallToolEnhanced(q)
  \/ \E q \in ReqIds : CallToolReturned(q)

SpecReg == InitReg /\ [][NextReg]_vars

(* ------------------------ properties of SpecReg ----------------------- *)
Listed(req, n) == req.servers[n] \in {"ready", "error"}
StateDone(q) == reg.reqs[q].kind = "state" /\ reg.reqs[q].pc = "done"

AddDone(q) == reg.reqs[q].kind = "add" /\ reg.reqs[q].pc = "done"

C11_AddIdempotent ==
  /\ \A n \in Names : Cardinality({x \in reg.live : x[1] = n}) <= 1
  /\ \A q \in ReqIds :
       (AddDone(q) /\ ~reg.reqs[q].fresh) => reg.reqs[q].status = 200 /\ ~reg.reqs[q].opened

\* Two adds of one name have each connected; the registry holds the second client.
C11_Witness ==
  \E p \in ReqIds, q \in ReqIds :
    /\ p # q /\ AddDone(p) /\ AddDone(q)
    /\ reg.reqs[p].name = reg.reqs[q].name
    /\ reg.reqs[p].stored /\ reg.reqs[q].stored

\* C12: a remove-mcp for a registered serverId always answers success and
\* deletes the client and the config, also when client.close() fails.
C12_RemoveAlwaysRemoves ==
  \A q \in ReqIds :
    (reg.reqs[q].kind = "remove" /\ reg.reqs[q].pc = "done" /\ reg.reqs[q].client # NoClient) =>
      reg.reqs[q].status = 200 /\ reg.reqs[q].deleted

\* A remove-mcp whose close() failed has ended, the server still registered.
C12_Witness ==
  \E q \in ReqIds :
    /\ reg.reqs[q].kind = "remove" /\ reg.reqs[q].pc = "done"
    /\ reg.reqs[q].client # NoClient /\ ~reg.reqs[q].deleted
    /\ reg.clients[reg.reqs[q].name] = reg.reqs[q].client

\* C13: a remove-mcp for a serverId that is not registered answers 404 in the
\* step it arrives, raises nothing and leaves clients, configs, the entry list
\* and every connection as they were.
C13_UnknownRemoveNotFound ==
  [][\A q \in ReqIds :
       (/\ reg.reqs[q].kind = "none"
        /\ reg'.reqs[q].kind = "remove"
        /\ reg.clients[reg'.reqs[q].name] = NoClient) =>
         /\ reg'.reqs[q].pc = "done" /\ reg'.reqs[q].status = 404
         /\ reg'.clients = reg.clients /\ reg'.configs = reg.configs
         /\ reg'.entries = reg.entries /\ reg'.live = reg.live]_vars

\* An unknown serverId was answered 404 while another server is registered.
C13_Witness ==
  \E q \in ReqIds :
    /\ reg.reqs[q].kind = "remove" /\ reg.reqs[q].status = 404
    /\ \E n \in Names : reg.clients[n] # NoClient /\ n \in reg.configs

\* C14: mcp-state isolates a failing listing: the server whose listTools
\* failed is reported in state error, every server whose listing
\* succeeded is reported ready with its tools, every server that was
\* stored before the request and never asked to be removed is reported, and
\* the request answers 200.
C14_DescribeIsolatesFailures ==
  \A q \in ReqIds :
    reg.reqs[q].kind = "state" =>
      /\ \A n \in Names :
           /\ reg.reqs[q].outcomes[n] = "failed" => reg.reqs[q].servers[n] = "error"
           /\ reg.reqs[q].outcomes[n] = "ok" =>
                reg.reqs[q].servers[n] = "ready" /\ n \in reg.reqs[q].tools
           /\ reg.reqs[q].outcomes[n] = "none" => reg.reqs[q].servers[n] = "absent"
      /\ reg.reqs[q].pc = "done" =>
           /\ reg.reqs[q].status = 200
           /\ \A n \in reg.reqs[q].okBefore \ reg.removeAsked : reg.reqs[q].outcomes[n] # "none"

\* An mcp-state has reported one server in error and, after it, another ready.
C14_Witness ==
  \E q \in ReqIds, m \in Names, n \in Names :
    /\ StateDone(q)
    /\ reg.reqs[q].outcomes[m] = "failed" /\ reg.reqs[q].outcomes[n] = "ok"
    /\ reg.reqs[q].name = n

ExecDone(q) == reg.reqs[q].kind = "execute" /\ reg.reqs[q].pc = "done"

\* The planned calls whose server was registered when their turn came.
Reached(req) == {i \in 1..Len(req.fates) : req.fates[i] # "absent"}

\* C16 (as stated): the execute phase returns one result per planned call, a
\* failing one (server missing, transport or tool error) tagged success=false.
C16_OneResultPerCall ==
  \A q \in ReqIds :
    ExecDone(q) =>
      /\ Len(reg.reqs[q].results) = Len(reg.reqs[q].plan)
      /\ \A i \in 1..Len(reg.reqs[q].results) :
           /\ reg.reqs[q].results[i].call = i
           /\ reg.reqs[q].results[i].success = (reg.reqs[q].fates[i] = "ok")

\* C16 (amended): every planned call has its turn whatever happened to the
\* calls before it; a call whose server is registered at its turn is invoked
\* and yields one result, in plan order, tagged success=true when it resolved
\* and success=false when it threw; a call whose server is missing at its
\* turn is not invoked and yields no result.
C16_ResultPerReachedCall ==
  \A q \in ReqIds :
    reg.reqs[q].kind = "execute" =>
      LET req == reg.reqs[q] IN
        /\ ExecDone(q) => Len(req.fates) = Len(req.plan)
        /\ Len(req.results) = Cardinality(Reached(req))
        /\ Len(req.invoked) = Cardinality(Reached(req)) + (IF req.pc = "calling" THEN 1 ELSE 0)
        /\ \A i \in 1..Len(req.results) :
             /\ req.results[i].call \in Reached(req)
             /\ req.results[i].success = (req.fates[req.results[i].call] = "ok")
             /\ \A j \in 1..Len(req.results) : i < j => req.results[i].call < req.results[j].call
             /\ req.invoked[i] = [server |-> req.plan[req.results[i].call].serverId,
                                  tool |-> req.plan[req.results[i].call].toolName,
                                  args |-> "planned"]

\* An execute phase has returned whose first call failed and whose second
\* call was then invoked and succeeded.
C16_Witness ==
  \E q \in ReqIds :
    /\ ExecDone(q)
    /\ Len(reg.reqs[q].fates) >= 2
    /\ reg.reqs[q].fates[1] = "failed" /\ reg.reqs[q].fates[2] = "ok"
    /\ reg.reqs[q].results = << [call |-> 1, success |-> FALSE], [call |-> 2, success |-> TRUE] >>

CallDone(q) == reg.reqs[q].kind = "call" /\ reg.reqs[q].pc = "done"

\* The invocation of the caller's tool on the caller's server.
Named(req) == [server |-> req.name, tool |-> "named", args |-> req.args]

\* C17 (as stated): a tool call is forwarded upstream only if its serverId
\* resolves to a registered connection in ready state; a call without
\* serverId, with an unknown one or for a connection not ready fails at once
\* and invokes no upstream tool.
C17_ForwardedOnlyIfReady ==
  \A q \in ReqIds :
    reg.reqs[q].kind = "call" =>
      IF reg.reqs[q].resolved /\ reg.reqs[q].seenState # "error"
        THEN TRUE
        ELSE reg.reqs[q].pc = "done" /\ reg.reqs[q].status = 400 /\ reg.reqs[q].invoked = << >>

\* C17 (amended): a tool call is forwarded exactly when its serverId is given
\* and names a registered connection, whatever state the last listing gave
\* that connection; otherwise it fails at once with status 400 and no
\* upstream tool is invoked.
C17_ForwardedIffRegistered ==
  \A q \in ReqIds :
    reg.reqs[q].kind = "call" =>
      LET req == reg.reqs[q] IN
        IF req.resolved
          THEN /\ req.invoked # << >>
               /\ req.status # 400
               /\ req.pc \in {"calling", "done"} => req.invoked[Len(req.invoked)] = Named(req)
               /\ req.client # NoClient
          ELSE req.pc = "done" /\ req.status = 400 /\ req.invoked = << >>

\* A call for a server the last mcp-state reported in error was forwarded
\* and answered 200.
C17_Witness ==
  \E q \in ReqIds :
    /\ CallDone(q) /\ reg.reqs[q].resolved /\ reg.reqs[q].seenState = "error"
    /\ reg.reqs[q].status = 200 /\ Named(reg.reqs[q]) \in {reg.reqs[q].invoked[i] : i \in 1..Len(reg.reqs[q].invoked)}

\* C18 (as stated): call-tool is a direct passthrough: exactly one upstream
\* invocation, of the named tool on the named server with the caller's
\* arguments, and no tool invoked on any other server.
C18_DirectPassthrough ==
  \A q \in ReqIds :
    (reg.reqs[q].kind = "call" /\ reg.reqs[q].resolved) =>
      reg.reqs[q].invoked = << [server |-> reg.reqs[q].name, tool |-> "named", args |-> "caller"] >>

\* C18 (amended): a forwarded call-tool invokes the named tool on the named
\* server exactly once, as its last invocation, and answers 200 with its raw
\* result or 500 with its error. When the call is not a governance query
\* carrying a proposal id, or no server of the other role is registered, that
\* is the only invocation and the arguments are the caller's. Otherwise one
\* cross-reference tool is invoked first on the other role's server, and the
\* named tool gets the caller's arguments extended with its result when it
\* succeeded, the caller's own arguments when it failed.
C18_PassthroughUnlessEnhanced ==
  \A q \in ReqIds :
    (reg.reqs[q].kind = "call" /\ reg.reqs[q].resolved) =>
      LET req == reg.reqs[q]
          cross == [server |-> req.other, tool |-> CrossTool(req.name), args |-> "own"]
      IN /\ req.other # 0 => req.gov /\ req.other # req.name /\ {req.other, req.name} = {Discourse, HoS}
         /\ req.pc = "enhancing" => req.other # 0 /\ req.invoked = << cross >>
         /\ req.pc \in {"calling", "done"} =>
              /\ req.invoked = IF req.other = 0 THEN << Named(req) >> ELSE << cross, Named(req) >>
              /\ req.args = IF req.other # 0 /\ req.fates = << "ok" >> THEN "enhanced" ELSE "caller"
         /\ req.pc = "done" => req.status \in {200, 500}

\* A call-tool has answered 200 after a cross-reference call on the other
\* server extended its arguments.
C18_Witness ==
  \E q \in ReqIds :
    /\ CallDone(q) /\ reg.reqs[q].status = 200
    /\ Len(reg.reqs[q].invoked) = 2 /\ reg.reqs[q].args = "enhanced"

\* C19: a query run whose stage throws emits RUN_ERROR as the last event it
\* emits (and no RUN_FINISHED), leaves its 30 s cleanup timer armed, and when
\* that timer fires the session's entry is removed from the registry.
C19_ErrorEndsRunAndCleansUp ==
  [][\A r \in RunIds :
       (runs'[r].kind = "query" /\ runs'[r].outcome = "error") =>
         /\ runs'[r].emitted # << >>
         /\ runs'[r].emitted[Len(runs'[r].emitted)].type = "RUN_ERROR"
         /\ Pos(runs'[r].emitted, "RUN_FINISHED", 0) = {}
         /\ runs'[r].timer \in {"armed", "fired"}
         /\ (runs[r].timer = "armed" /\ runs'[r].timer = "fired") =>
              eventControllers'[runs'[r].sid] = NoSink]_vars

\* A query run ended in its catch block, its cleanup timer has fired and the
\* session has no entry.
C19_Witness ==
  \E r \in RunIds :
    /\ runs[r].kind = "query" /\ runs[r].outcome = "error" /\ runs[r].timer = "fired"
    /\ runs[r].emitted[Len(runs[r].emitted)].type = "RUN_ERROR"
    /\ eventControllers[runs[r].sid] = NoSink

\* The sink is the one stored in the registry under its session id.
Registered(k) == k <= nSinks /\ eventControllers[sinks[k].sid] = k

\* Something is under way that will delete the sink's entry without a write
\* failing: its 5-minute timer, or a run or stream handler for its session
\* that has not finished or whose 30 s timer is armed.
RemovalPending(k) ==
  \/ sinks[k].shutdown
  \/ \E r \in RunIds :
       /\ runs[r].kind # "none" /\ runs[r].sid = sinks[k].sid
       /\ runs[r].pc # "done" /\ runs[r].timer # "fired"

\* C20: every sink registered for a session is eventually removed from the
\* registry even if its consumer never disconnects and no write fails: a
\* registered sink whose consumer is connected always has its removal
\* pending (the 5-minute lifetime timer, or the query it serves and its 30 s
\* grace timer).
C20_RegisteredSinkRemovalPending ==
  \A k \in SinkIds : (Registered(k) /\ sinks[k].open) => RemovalPending(k)

\* A stream opened by GET query-with-events is registered, its consumer
\* connected, with no timer armed and no run for its session.
C20_Witness ==
  \E k \in SinkIds :
    /\ Registered(k) /\ sinks[k].open /\ sinks[k].kind = "legacy"
    /\ sinks[k].pings = MaxPings
    /\ ~sinks[k].shutdown
    /\ \A r \in RunIds : runs[r].kind = "none"

\* C21: a query request that carries no API key is answered with 400 or 401
\* and its pipeline does not start: the run plans and executes no tool call,
\* makes no LLM call and emits no run event.
C21_NoKeyNoPipeline ==
  \A r \in RunIds :
    (runs[r].kind = "query" /\ ~runs[r].hasKey) =>
      /\ runs[r].status \in {400, 401}
      /\ runs[r].stages = << >>
      /\ runs[r].emitted = << >>

\* A streamed query without API key was answered 200 and its run went
\* through every stage and emitted RUN_FINISHED.
C21_Witness ==
  \E r \in RunIds :
    /\ runs[r].kind = "query" /\ ~runs[r].hasKey /\ runs[r].handler = "stream"
    /\ runs[r].status = 200 /\ runs[r].outcome = "finished"
    /\ runs[r].stages = <<"plan", "execute", "extract", "filter", "analyze">>
    /\ Pos(runs[r].emitted, "RUN_FINISHED", 0) # {}

\* What makes a run end in its catch block: extractGovernanceData throwing
\* in a query run, a missing key or a throwing analysis in a sentiment run.
ErrorCause(run) ==
  IF run.kind = "query" THEN run.stages = <<"plan", "execute">>
  ELSE ~run.hasKey \/ run.stages = <<"gather">>

\* The emits of a step whose write was rejected.
FailedWrites(old, new) == {i \in (Len(old) + 1)..Len(new) : new[i].to = -1}

InFlight == {"getMcpState", "executeTools", "filter", "analyze"}

\* Where a query run stands after the call it awaits has settled.
AfterCall(pc) ==
  CASE pc = "getMcpState" -> {"executeTools"}
    [] pc = "executeTools" -> {"filter", "returned"}
    [] pc = "filter" -> {"analyze"}
    [] pc = "analyze" -> {"returned"}

\* The number of events written to streams by a step.
Written(old, new) ==
  Cardinality({i \in (Len(old) + 1)..Len(new) : new[i].to > 0})

RECURSIVE StreamTotal(_, _)
StreamTotal(ss, k) == IF k = 0 THEN 0 ELSE Len(ss[k].stream) + StreamTotal(ss, k - 1)

\* C23: a disconnect while a tool call or LLM call of a query run is in
\* flight cancels nothing: the run is left as it is by every step that is not
\* its own, its awaited call can still settle, it then moves to its next
\* stage, and a finished run has gone through every stage; only what it
\* emits is discarded, an emit that is not written to a registered open
\* stream adding nothing to any stream.
C23_DisconnectDoesNotCancel ==
  [][\A r \in RunIds :
       (runs[r].kind = "query" /\ runs[r].pc \in InFlight) =>
         /\ CASE runs[r].pc = "getMcpState" -> ENABLED QueryAfterMcpState(r)
              [] runs[r].pc = "executeTools" -> ENABLED QueryAfterExecute(r)
              [] runs[r].pc = "filter" -> ENABLED QueryAfterFilter(r)
              [] runs[r].pc = "analyze" -> ENABLED QueryAfterAnalyze(r)
         /\ runs'[r] = runs[r] \/ runs'[r].pc \in AfterCall(runs[r].pc)
         /\ runs'[r].outcome \in {"none", "finished", "error"}
         /\ runs'[r].outcome = "finished" =>
              runs'[r].stages = <<"plan", "execute", "extract", "filter", "analyze">>
         /\ runs'[r].emitted # runs[r].emitted =>
              StreamTotal(sinks', MaxSinks) =
                StreamTotal(sinks, MaxSinks) + Written(runs[r].emitted, runs'[r].emitted)]_vars

\* A query run wrote its opening events to a sink, the sink's consumer went
\* away before a later emit, and the run finished all its stages.
C23_Witness ==
  \E r \in RunIds :
    /\ runs[r].kind = "query" /\ runs[r].outcome = "finished"
    /\ runs[r].stages = <<"plan", "execute", "extract", "filter", "analyze">>
    /\ runs[r].emitted[1].to > 0
    /\ \E i \in 2..Len(runs[r].emitted) : runs[r].emitted[i].to = -1

\* The sink attached last for a session (0: none was).
Newest(ss, n, s) ==
  LET own == {k \in 1..n : ss[k].sid = s}
  IN IF own = {} THEN NoSink ELSE CHOOSE k \in own : \A j \in own : j <= k

C25_DetachClosesStream ==
  [][\A k \in SinkIds :
       (k <= nSinks /\ eventControllers[sinks[k].sid] = k
          /\ eventControllers'[sinks[k].sid] = NoSink) => ~sinks'[k].open]_vars

\* The 30 s cleanup of a finished query run has deleted the entry of the
\* sink that received the run's last event, and the sink's stream is open.
C25_Witness ==
  \E r \in RunIds, k \in SinkIds :
    /\ runs[r].kind = "query" /\ runs[r].outcome = "finished" /\ runs[r].timer = "fired"
    /\ runs[r].emitted[Len(runs[r].emitted)].to = k
    /\ sinks[k].sid = runs[r].sid /\ sinks[k].open
    /\ eventControllers[runs[r].sid] = NoSink

MaxItems == 2

\* Strings are sequences of characters; "T" is the only upper-case one.
Lower(c) == IF c = "T" THEN "t" ELSE c

\* String.prototype.toLowerCase
ToLowerCase(str) == [i \in 1..Len(str) |-> Lower(str[i])]

\* String.prototype.includes
Includes(str, part) ==
  \E i \in 0..(Len(str) - Len(part)) : SubSeq(str, i + 1, i + Len(part)) = part

\* Reading a member the item does not have: undefined.
NoId == 0

\* The items of tool results: proposals with id and title and no
\* proposal_id, discussions with id, title and excerpt (a title or excerpt
\* may be empty).
ProposalTitles == {<< >>, <<"T">>, <<"t", "x">>}
ProposalItems ==
  {[id |-> i, proposal_id |-> NoId, title |-> t] : i \in PIds, t \in ProposalTitles}
DiscussionItems ==
  {[id |-> i, title |-> t, excerpt |-> e] :
     i \in DIds, t \in {<< >>, <<"t">>}, e \in {<< >>, <<"x">>, <<"T">>}}

\* Sequences of at most n elements of a set.
SeqsUpTo(S, n) == UNION {[1..m -> S] : m \in 0..n}

\* The text of a tool result: text that is no JSON, the JSON literal null, or
\* a JSON object with some of the members extraction looks for.
NoText == [kind |-> "none", hasProposals |-> FALSE, proposals |-> << >>,
           hasTopics |-> FALSE, topics |-> << >>, hasPosts |-> FALSE, posts |-> << >>]
Malformed == [NoText EXCEPT !.kind = "malformed"]
JsonNull == [NoText EXCEPT !.kind = "null"]
ToolTexts(toolName) ==
  {Malformed, JsonNull}
  \cup (IF toolName = "getrecentproposals"
          THEN {[NoText EXCEPT !.kind = "object", !.hasProposals = TRUE, !.proposals = ps] :
                  ps \in SeqsUpTo(ProposalItems, MaxItems)}
        ELSE IF toolName = "get_latest_topics"
          THEN {[NoText EXCEPT !.kind = "object", !.hasTopics = TRUE, !.topics = ds] :
                  ds \in SeqsUpTo(DiscussionItems, 1)}
        ELSE {[NoText EXCEPT !.kind = "object", !.hasPosts = TRUE, !.posts = ds] :
                  ds \in SeqsUpTo(DiscussionItems, 1)})

\* What executeGovernanceTools returns for one planned call: nothing (server
\* missing), a failure, or a success with its text.
ResultsOf(toolName) ==
  {<< >>, << [toolName |-> toolName, success |-> FALSE, text |-> NoText] >>}
  \cup {<< [toolName |-> toolName, success |-> TRUE, text |-> t] >> : t \in ToolTexts(toolName)}

ToolResults ==
  {a \o b \o c : a \in ResultsOf("get_latest_topics"), b \in ResultsOf("search_posts"),
                 c \in ResultsOf("getrecentproposals")}

\* 0.8, in hundredths
Confidence == 80

\* toolName.includes("proposal"); toolName.includes("topic") || toolName.includes("post")
NamesProposal(toolName) == toolName = "getrecentproposals"
NamesDiscussion(toolName) == toolName \in {"get_latest_topics", "search_posts"}

\* The object extraction falls back to when the text is no JSON:
\* { text: textContent, raw: data }. It has none of the members looked for.
Fallback == [NoText EXCEPT !.kind = "fallback"]

\* JSON.parse(textContent) with its catch.
ParsedData(text) == IF text.kind = "malformed" THEN Fallback ELSE text

\* ...parsedData.posts.map((p) => ({...p, type: "post"})); topics are pushed as they are.
AsTopic(d) == [id |-> d.id, title |-> d.title, excerpt |-> d.excerpt, type |-> "undefined"]
AsPost(d) == [id |-> d.id, title |-> d.title, excerpt |-> d.excerpt, type |-> "post"]

\* extractGovernanceData, first loop: the proposals and discussions pushed
\* for the results from position i on. A failed result is passed over; the
\* JSON literal null makes a member read throw a TypeError.
RECURSIVE Gather(_, _, _)
Gather(results, i, acc) ==
  IF i > Len(results) THEN acc
  ELSE IF ~results[i].success THEN Gather(results, i + 1, acc)
  ELSE IF results[i].text.kind = "null" THEN [acc EXCEPT !.threw = TRUE]
  ELSE LET toolName == results[i].toolName
           parsedData == ParsedData(results[i].text)
           ps == IF (NamesProposal(toolName) \/ parsedData.hasProposals) /\ parsedData.hasProposals
                   THEN parsedData.proposals ELSE << >>
           ds == IF NamesDiscussion(toolName) \/ parsedData.hasTopics \/ parsedData.hasPosts
                   THEN IF parsedData.hasTopics
                          THEN [k \in 1..Len(parsedData.topics) |-> AsTopic(parsedData.topics[k])]
                        ELSE IF parsedData.hasPosts
                          THEN [k \in 1..Len(parsedData.posts) |-> AsPost(parsedData.posts[k])]
                        ELSE << >>
                   ELSE << >>
       IN Gather(results, i + 1, [acc EXCEPT !.proposals = @ \o ps, !.discussions = @ \o ds])

\* Fault: the comparison keeps the case of both texts.
ContentMatchesCaseSensitive(proposal, discussion) ==
  LET content == discussion.title \o <<" ">> \o discussion.excerpt
      proposalTitle == proposal.title
  IN proposalTitle # << >> /\ Includes(content, proposalTitle)

\* The test of the cross-reference loop for one proposal and one discussion.
ContentMatches(proposal, discussion) ==
  LET content == ToLowerCase(discussion.title \o <<" ">> \o discussion.excerpt)
      proposalTitle == ToLowerCase(proposal.title)
  IN proposalTitle # << >> /\ Includes(content, proposalTitle)

CrossReference(proposal, discussion) ==
  [type |-> "content_match", proposal_id |-> proposal.id,
   discussion_id |-> discussion.id, confidence |-> Confidence]

\* The cross-reference loop from proposal i, discussion j on.
RECURSIVE CrossReferences(_, _, _, _)
CrossReferences(proposals, discussions, i, j) ==
  IF i > Len(proposals) THEN << >>
  ELSE IF j > Len(discussions) THEN CrossReferences(proposals, discussions, i + 1, 1)
  ELSE (IF ContentMatches(proposals[i], discussions[j])
          THEN << CrossReference(proposals[i], discussions[j]) >> ELSE << >>)
       \o CrossReferences(proposals, discussions, i, j + 1)

\* `prop-${Date.now()}` and `disc-${Date.now()}`: ids no upstream item has.
PropPlaceholder == -1
DiscPlaceholder == -2

\* normalizeProposals / normalizeDiscussions: defaults for absent members; the
\* item's own members are spread last and stay as they are.
NormalizeProposal(p) ==
  [id |-> IF p.id # NoId THEN p.id
          ELSE IF p.proposal_id # NoId THEN p.proposal_id ELSE PropPlaceholder,
   proposal_id |-> p.proposal_id, title |-> p.title, status |-> "unknown"]
NormalizeDiscussion(d) ==
  [id |-> IF d.id # NoId THEN d.id ELSE DiscPlaceholder,
   title |-> d.title, excerpt |-> d.excerpt,
   type |-> IF d.type = "undefined" THEN "topic" ELSE d.type]

\* extractGovernanceData: the value returned, or the exception that leaves it.
ExtractGovernanceData(results) ==
  LET g == Gather(results, 1, [proposals |-> << >>, discussions |-> << >>, threw |-> FALSE])
  IN IF g.threw THEN Raises("TypeError")
     ELSE Returns([proposals |-> [i \in 1..Len(g.proposals) |-> NormalizeProposal(g.proposals[i])],
                   discussions |-> [i \in 1..Len(g.discussions) |-> NormalizeDiscussion(g.discussions[i])],
                   crossReferences |-> CrossReferences(g.proposals, g.discussions, 1, 1)])

\* What the filter step gets from the LLM in this part of the model: no
\* usable response (every path that returns rawData), or a parsed object
\* naming both id lists.
FilterOutcomes ==
  {[NoBody EXCEPT !.kind = "failed"]}
  \cup {[kind |-> "object", hasP |-> TRUE, pids |-> p, hasD |-> TRUE, dids |-> d, explanation |-> "text"] :
          p \in SUBSET PIds, d \in SUBSET DIds}

\* Fault: of the items with one id only the first is kept.
SelectByIdOnce(items, ids) ==
  SelectSeq([i \in 1..Len(items) |->
               IF \E j \in 1..(i - 1) : items[j].id = items[i].id
                 THEN [items[i] EXCEPT !.id = 0] ELSE items[i]],
            LAMBDA p : p.id \in ids)

\* rawData.proposals.filter((p) => ids.includes(p.id))
SelectById(items, ids) == SelectSeq(items, LAMBDA p : p.id \in ids)

\* Data without any item.
EmptyData == [proposals |-> << >>, discussions |-> << >>, crossReferences |-> << >>]

\* Fault: without a usable response the filter step returns no data.
FilterListsEmptyOnFailure(raw, instr) ==
  IF instr.kind # "object" THEN EmptyData
  ELSE [proposals |-> SelectById(raw.proposals, instr.pids),
        discussions |-> SelectById(raw.discussions, instr.dids),
        crossReferences |-> SelectSeq(raw.crossReferences,
                              LAMBDA ref : ref.proposal_id \in instr.pids /\ ref.discussion_id \in instr.dids),
        explanation |-> instr.explanation]

\* claudeFilterResults on lists: rawData when there is no usable response,
\* else the three filters and the explanation.
FilterLists(raw, instr) ==
  IF instr.kind # "object" THEN raw
  ELSE IF (~instr.hasP /\ raw.proposals # << >>) \/ (~instr.hasD /\ raw.discussions # << >>)
    THEN raw
  ELSE [proposals |-> SelectById(raw.proposals, instr.pids),
        discussions |-> SelectById(raw.discussions, instr.dids),
        crossReferences |-> SelectSeq(raw.crossReferences,
                              LAMBDA ref : ref.proposal_id \in instr.pids /\ ref.discussion_id \in instr.dids),
        explanation |-> instr.explanation]

NoResponse == [status |-> 0, message |-> "none", proposals |-> << >>, discussions |-> << >>,
               crossReferences |-> << >>, analysis |-> "undefined"]

InitData ==
  /\ InitEmitter
  /\ llm = 0
  /\ reg = 0
  /\ data \in {[pc |-> "extract", toolResults |-> r, rawData |-> EmptyData,
                 filterInstructions |-> NoBody, filteredData |-> EmptyData,
                 analysisResult |-> NoAnalysis, response |-> NoResponse] : r \in ToolResults}
  /\ chat = 0
  /\ hooks = 0

\* POST query, step 4: extractGovernanceData; an exception goes to the
\* handler's catch, which answers 500.
QueryExtract ==
  /\ data.pc = "extract"
  /\ LET out == ExtractGovernanceData(data.toolResults) IN
       data' = IF out.raised
                 THEN [data EXCEPT !.pc = "done", !.response.status = 500, !.response.message = "error"]
                 ELSE [data EXCEPT !.pc = "filter", !.rawData = out.value]
  /\ UNCHANGED <<eventControllers, sinks, nSinks, runs, llm, reg, chat, hooks>>

\* Step 5: claudeFilterResults has settled.
QueryFilter ==
  /\ data.pc = "filter"
  /\ \E instr \in FilterOutcomes :
       data' = [data EXCEPT !.pc = "analyze", !.filterInstructions = instr,
                            !.filteredData = FilterLists(data.rawData, instr)]
  /\ UNCHANGED <<eventControllers, sinks, nSinks, runs, llm, reg, chat, hooks>>

\* What claudeAnalyzeResults returns: the parsed object, the response text
\* as answer when it holds no JSON, or the fallback.
AnalyzeOutcomes ==
  {[answer |-> "text", analysis |-> "object"], [answer |-> "text", analysis |-> "null"],
   AnalyzeFallback}

\* Step 6: claudeAnalyzeResults has settled.
QueryAnalyze ==
  /\ data.pc = "analyze"
  /\ \E result \in AnalyzeOutcomes :
       data' = [data EXCEPT !.pc = "respond", !.analysisResult = result]
  /\ UNCHANGED <<eventControllers, sinks, nSinks, runs, llm, reg, chat, hooks>>

\* Step 7: the response, status 200.
QueryRespond ==
  /\ data.pc = "respond"
  /\ data' = [data EXCEPT !.pc = "done",
       !.response = [status |-> 200,
                     message |-> IF data.analysisResult.answer = "text" THEN "answer" ELSE "found",
                     proposals |-> data.filteredData.proposals,
                     discussions |-> data.filteredData.discussions,
                     crossReferences |-> data.filteredData.crossReferences,
                     analysis |-> data.analysisResult.analysis]]
  /\ UNCHANGED <<eventControllers, sinks, nSinks, runs, llm, reg, chat, hooks>>

NextData == QueryExtract \/ QueryFilter \/ QueryAnalyze \/ QueryRespond

SpecData == InitData /\ [][NextData]_vars

\* The filter step has returned for a response that names both id lists.
Filtered == data.pc \in {"analyze", "respond", "done"} /\ data.filterInstructions.kind = "object"

\* out is the sequence of the elements of items whose id is in ids, each as
\* often as it occurs, in the order of items.
IsSelection(out, items, ids) ==
  LET idx == {i \in 1..Len(items) : items[i].id \in ids}
  IN /\ Len(out) = Cardinality(idx)
     /\ \A i \in idx : out[Cardinality({j \in idx : j < i}) + 1] = items[i]

\* C27: given a filter response naming relevant_proposal_ids and
\* relevant_discussion_ids, the filter step returns exactly the input
\* proposals and discussions whose id is in the respective list, in input
\* order.
C27_FilterExactIds ==
  Filtered =>
    /\ IsSelection(data.filteredData.proposals, data.rawData.proposals, data.filterInstructions.pids)
    /\ IsSelection(data.filteredData.discussions, data.rawData.discussions, data.filterInstructions.dids)

\* The response named proposal 2 only; the input held proposal 1, then
\* proposal 2, and two discussions; proposal 2 alone was returned.
C27_Witness ==
  /\ Filtered
  /\ data.filterInstructions.pids = {2}
  /\ Len(data.rawData.proposals) = 2
  /\ data.rawData.proposals[1].id = 1 /\ data.rawData.proposals[2].id = 2
  /\ Len(data.rawData.discussions) = 2
  /\ data.filteredData.proposals = << data.rawData.proposals[2] >>

\* Some successful tool result carries text that is no JSON / the JSON
\* literal null.
HasText(kind) ==
  \E i \in 1..Len(data.toolResults) :
    data.toolResults[i].success /\ data.toolResults[i].text.kind = kind

\* Extraction has returned or thrown.
Extracted == data.pc # "extract"

\* The fallback object is among the data extraction returned.
Preserved(raw) ==
  \E f \in DOMAIN raw : \E i \in 1..Len(raw[f]) : raw[f][i] = Fallback

\* C28: when the text of a successful tool result is not valid JSON,
\* extraction does not throw on it and the returned data holds the fallback
\* object {text, raw} made from the text.
C28_MalformedTextPreserved ==
  (Extracted /\ HasText("malformed") /\ ~HasText("null")) =>
    /\ data.response.status # 500
    /\ Preserved(data.rawData)

\* The only result is a success whose text is no JSON: extraction returned,
\* and returned nothing at all.
C28_Witness ==
  /\ Extracted
  /\ Len(data.toolResults) = 1
  /\ HasText("malformed")
  /\ data.response.status # 500
  /\ data.rawData = EmptyData

\* Extraction has returned its data.
ExtractionReturned == Extracted /\ data.response.status # 500

\* The discussion's title and excerpt, joined by a space, contain the
\* proposal's title, which is not empty, when case is ignored.
TitleFound(proposal, discussion) ==
  LET content == discussion.title \o <<" ">> \o discussion.excerpt
      title == proposal.title
  IN /\ Len(title) > 0
     /\ \E k \in 0..(Len(content) - Len(title)) :
          \A m \in 1..Len(title) : Lower(content[k + m]) = Lower(title[m])

\* The positions (proposal, discussion) of the pairs for which it does.
FoundPairs(raw) ==
  {pr \in (1..Len(raw.proposals)) \X (1..Len(raw.discussions)) :
     TitleFound(raw.proposals[pr[1]], raw.discussions[pr[2]])}

\* Pairs in the order of the proposals, then of the discussions.
PairBefore(a, b) == a[1] < b[1] \/ (a[1] = b[1] /\ a[2] < b[2])

\* C29: extraction returns one cross-reference, of confidence 0.8, for each
\* (proposal, discussion) pair in which the discussion's title and excerpt
\* contain the proposal's non-empty title, compared without regard to case,
\* and none for any other pair.
C29_CrossReferenceExactlyOnMatch ==
  ExtractionReturned =>
    LET raw == data.rawData
        pairs == FoundPairs(raw)
    IN /\ Len(raw.crossReferences) = Cardinality(pairs)
       /\ \A pr \in pairs :
            raw.crossReferences[Cardinality({q \in pairs : PairBefore(q, pr)}) + 1]
              = [type |-> "content_match", proposal_id |-> raw.proposals[pr[1]].id,
                 discussion_id |-> raw.discussions[pr[2]].id, confidence |-> 80]

\* A proposal titled "T" and one without title, and one discussion titled
\* "t" with no excerpt: exactly one edge, for the first proposal.
C29_Witness ==
  /\ ExtractionReturned
  /\ Len(data.rawData.proposals) = 2
  /\ data.rawData.proposals[1].title = <<"T">>
  /\ data.rawData.proposals[2].title = << >>
  /\ Len(data.rawData.discussions) = 1
  /\ data.rawData.discussions[1].title = <<"t">>
  /\ data.rawData.discussions[1].excerpt = << >>
  /\ Len(data.rawData.crossReferences) = 1
  /\ data.rawData.crossReferences[1].proposal_id = data.rawData.proposals[1].id

\* Some tool call failed; the filter step and the analysis step both fell
\* back; the response is built.
Degraded ==
  /\ data.pc = "done"
  /\ \E i \in 1..Len(data.toolResults) : ~data.toolResults[i].success
  /\ data.filterInstructions.kind = "failed"
  /\ data.analysisResult.analysis = "null"

\* The items in the text of one successful tool result, as extraction
\* returns them.
ItemsOf(result, field) ==
  IF field = "proposals"
    THEN [k \in 1..Len(result.text.proposals) |-> NormalizeProposal(result.text.proposals[k])]
    ELSE [k \in 1..Len(result.text.topics) |-> NormalizeDiscussion(AsTopic(result.text.topics[k]))]
         \o [k \in 1..Len(result.text.posts) |-> NormalizeDiscussion(AsPost(result.text.posts[k]))]

\* How many there are in the successful results from position i on.
RECURSIVE Succeeded(_, _, _)
Succeeded(results, i, field) ==
  IF i > Len(results) THEN 0
  ELSE (IF results[i].success THEN Len(ItemsOf(results[i], field)) ELSE 0)
       + Succeeded(results, i + 1, field)

\* C30: when some tool calls fail and both LLM steps fail, the synchronous
\* query endpoint still answers 200, with every proposal and discussion
\* extracted from the tool calls that succeeded and nothing else, and with
\* analysis null.
C30_DegradedKeepsGathered ==
  Degraded =>
    /\ data.response.status = 200
    /\ data.response.analysis = "null"
    /\ data.response.proposals = data.rawData.proposals
    /\ data.response.discussions = data.rawData.discussions
    /\ \A f \in {"proposals", "discussions"} :
         /\ Len(data.response[f]) = Succeeded(data.toolResults, 1, f)
         /\ \A i \in 1..Len(data.toolResults) :
              data.toolResults[i].success =>
                \A k \in 1..Len(ItemsOf(data.toolResults[i], f)) :
                  \E m \in 1..Len(data.response[f]) :
                    data.response[f][m] = ItemsOf(data.toolResults[i], f)[k]

\* The topics call failed, the proposals call returned two proposals, both
\* LLM steps fell back: the answer is 200 with the two proposals, no answer
\* text and no analysis.
C30_Witness ==
  /\ Degraded
  /\ \E i \in 1..Len(data.toolResults) :
       /\ data.toolResults[i].success
       /\ Len(data.toolResults[i].text.proposals) = 2
  /\ data.analysisResult = AnalyzeFallback
  /\ data.response.status = 200
  /\ Len(data.response.proposals) = 2
  /\ data.response.message = "found"

\* The stages of a query run, in the order of the source.
StageOrder == <<"plan", "execute", "extract", "filter", "analyze">>

\* C31: within one query run the stages complete in the order plan, execute,
\* extract, filter, analyze, none skipped or repeated, all five on the
\* success path; the analysis call is made only once the filter call has
\* returned, with what the filter returned, and the two calls are never in
\* progress together.
C31_StagesInOrder ==
  \A r \in RunIds :
    runs[r].kind = "query" =>
      LET run == runs[r] IN
      /\ Len(run.stages) <= 5 /\ run.stages = SubSeq(StageOrder, 1, Len(run.stages))
      /\ run.outcome = "finished" => run.stages = StageOrder
      /\ run.pc = "filter" => run.stages = SubSeq(StageOrder, 1, 3) /\ run.analyzeIn = "none"
      /\ run.pc = "analyze" => run.stages = SubSeq(StageOrder, 1, 4)
      /\ run.analyzeIn # "none" =>
           /\ Len(run.stages) >= 4
           /\ run.filterOut \in FilterResults
           /\ run.analyzeIn = run.filterOut

\* A run finished after its filter returned the filtered object.
C31_Witness ==
  \E r \in RunIds :
    /\ runs[r].kind = "query" /\ runs[r].outcome = "finished"
    /\ runs[r].stages = StageOrder
    /\ runs[r].filterOut = "filtered" /\ runs[r].analyzeIn = "filtered"

(* ---------------- overlapping event-streamed requests ----------------- *)
\* POST query-with-events requests of part_003 on one agent, as many as
\* MaxOverlap at a time, each with the query run it awaits; the clients stay
\* connected and the steps of a sentiment run are those of Spec.
MaxOverlap == 2
OverlapRuns == 1..MaxOverlap

InitOverlap ==
  /\ eventControllers = [s \in Sessions |-> NoSink]
  /\ sinks = [k \in SinkIds |-> NoStream]
  /\ nSinks = 0
  /\ runs = [r \in OverlapRuns |-> NoRun]
  /\ llm = 0
  /\ reg = 0
  /\ data = 0
  /\ chat = 0
  /\ hooks = 0

\* The next request takes the first unused run.
OverlapPost(r) ==
  /\ \A q \in OverlapRuns : q < r => runs[q].kind # "none"
  /\ PostQueryStream(r)

NextOverlap ==
  \/ \E r \in OverlapRuns : OverlapPost(r)
  \/ \E r \in OverlapRuns : QueryAfterWait(r)
  \/ \E r \in OverlapRuns : QueryAfterMcpState(r)
  \/ \E r \in OverlapRuns : QueryAfterExecute(r)
  \/ \E r \in OverlapRuns : QueryAfterFilter(r)
  \/ \E r \in OverlapRuns : QueryAfterAnalyze(r)
  \/ \E r \in OverlapRuns : CleanupTimer(r)
  \/ \E r \in OverlapRuns : HandlerFinish(r)
  \/ \E r \in OverlapRuns : HandlerAfterClose(r)

SpecOverlap == InitOverlap /\ [][NextOverlap]_vars

\* The sinks that run r's emitToSession calls wrote to.
WroteTo(r) == {runs[r].emitted[i].to : i \in 1..Len(runs[r].emitted)} \ {NoSink, -1}

\* C32: no event that a run emits is written to the stream opened for
\* another run.
C32_OwnStreamOnly ==
  \A r \in OverlapRuns :
    runs[r].handler = "stream" => WroteTo(r) \subseteq {runs[r].own}

\* The first run's request opened stream 1; a second request came while it
\* was in progress; events of the first run are in the second's stream.
C32_Witness ==
  /\ runs[1].handler = "stream" /\ runs[1].own = 1
  /\ runs[2].handler = "stream" /\ runs[2].own = 2
  /\ 2 \in WroteTo(1)
  /\ \E i \in 1..Len(sinks[2].stream) :
       sinks[2].stream[i] = Ev("TEXT_MESSAGE_CONTENT", 1)

\* C33: a sink's entry is removed from the registry only by its own
\* teardown: the lifetime timer or keep-alive that removes it is that of its
\* own stream, and the request handler or run cleanup that removes it is that
\* of the request which opened it.
C33_RemovedByOwnTeardown ==
  [][\A s \in Sessions :
       (eventControllers[s] # NoSink /\ eventControllers'[s] = NoSink) =>
         LET k == eventControllers[s] IN
         /\ \A j \in SinkIds : (Shutdown(j) \/ KeepAlive(j)) => j = k
         /\ \A r \in RunIds :
              (runs[r].handler = "stream" /\ (HandlerAfterClose(r) \/ CleanupTimer(r)))
                => runs[r].own = k]_vars

\* Two GET events streams of one session: the lifetime timer of the first
\* has fired, the second is open with both its timers armed and nothing was
\* emitted to it, and the session has no entry.
C33_Witness ==
  \E s \in Sessions :
    /\ sinks[1].sid = s /\ sinks[1].kind = "events" /\ ~sinks[1].shutdown
    /\ sinks[2].sid = s /\ sinks[2].kind = "events"
    /\ sinks[2].open /\ sinks[2].shutdown /\ sinks[2].interval
    /\ eventControllers[s] = NoSink
    /\ \A r \in RunIds : runs[r].kind = "none"

\* The positions of the terminal events in a stream.
Terminal(q) == {i \in 1..Len(q) : q[i].type \in {"RUN_FINISHED", "RUN_ERROR"}}

\* C34: the stream of an event-streamed query run holds at most one terminal
\* event, RUN_FINISHED or RUN_ERROR, and no run event after it.
C34_OneTerminalEvent ==
  \A r \in RunIds :
    (runs[r].kind = "query" /\ runs[r].handler = "stream") =>
      LET q == sinks[runs[r].own].stream IN
      /\ Cardinality(Terminal(q)) <= 1
      /\ \A i \in Terminal(q) : \A j \in (i + 1)..Len(q) : q[j].type \notin EventTypes

\* The run ended in its catch: its stream holds the run's RUN_ERROR and,
\* after it, the handler's RUN_FINISHED.
C34_Witness ==
  \E r \in RunIds :
    /\ runs[r].kind = "query" /\ runs[r].handler = "stream" /\ runs[r].outcome = "error"
    /\ LET q == sinks[runs[r].own].stream IN
       \E i, j \in 1..Len(q) : i < j /\ q[i].type = "RUN_ERROR" /\ q[j].type = "RUN_FINISHED"

(* ------------------------- the Chat component ------------------------- *)
\* Chat.tsx with the server of src/src/server.ts: one submitted query, the
\* POST query-with-events request, the EventSource on GET events and the
\* events it delivers to handleAGUIEvent.
NoChat == [pc |-> "idle", isLoading |-> FALSE, isStreaming |-> FALSE,
           sid |-> NullSid, sink |-> NoSink, seen |-> 0]

InitChat ==
  /\ InitEmitter
  /\ llm = 0
  /\ reg = 0
  /\ data = 0
  /\ hooks = 0
  /\ chat = NoChat

\* handleSubmit up to its fetch: a key is stored (else it returns), the
\* input is not empty and isLoading is false.
HandleSubmit ==
  /\ chat.pc = "idle" /\ ~chat.isLoading
  /\ chat' = [chat EXCEPT !.pc = "posting", !.isLoading = TRUE, !.isStreaming = TRUE]
  /\ UNCHANGED <<eventControllers, sinks, nSinks, runs, llm, reg, data, hooks>>

\* The request reaches the server; the body carries the stored key.
ChatPostArrives(r, s) ==
  /\ chat.pc = "posting"
  /\ \A q \in RunIds : runs[q].kind = "none"
  /\ PostQueryBackground(r, s)
  /\ runs'[r].hasKey

\* handleSubmit's catch: fetch rejected, or the response was not ok.
HandleSubmitCatch ==
  /\ chat.pc = "posting"
  /\ chat' = [chat EXCEPT !.pc = "failed", !.isLoading = FALSE, !.isStreaming = FALSE]
  /\ UNCHANGED <<eventControllers, sinks, nSinks, runs, llm, reg, data, hooks>>

\* The response {sessionId} arrives: startEventStream creates the EventSource.
StartEventStream ==
  /\ chat.pc = "posting"
  /\ \E r \in RunIds :
       /\ runs[r].handler = "bg" /\ runs[r].status = 200
       /\ chat' = [chat EXCEPT !.pc = "connecting", !.sid = runs[r].sid]
  /\ UNCHANGED <<eventControllers, sinks, nSinks, runs, llm, reg, data, hooks>>

\* The stream the EventSource reads: the last one opened for its session.
ChatSink ==
  LET own == {k \in 1..nSinks : sinks[k].sid = chat.sid}
  IN IF chat.sid = NullSid \/ own = {} THEN NoSink
     ELSE CHOOSE k \in own : \A j \in own : j <= k

\* The EventSource's GET events?session=sid reaches the server: the first
\* time, or again after the server closed the stream (the browser reconnects).
ChatAttach ==
  /\ chat.pc = "connecting"
  /\ IF ChatSink = NoSink THEN TRUE ELSE ~sinks[ChatSink].open
  /\ GetEvents(chat.sid)

\* What handleAGUIEvent does to the flags.
HandleAGUIEvent(c, ev) ==
  IF ev.type = "RUN_STARTED" THEN [c EXCEPT !.isStreaming = TRUE]
  ELSE IF ev.type \in {"RUN_FINISHED", "RUN_ERROR"}
    THEN [c EXCEPT !.isStreaming = FALSE, !.isLoading = FALSE]
  ELSE c

\* eventSource.onmessage for the next event of stream k (keep-alive comments
\* are not messages and are passed over).
OnMessage(c, k, ev) ==
  [(IF ev.type = ": keep-alive" THEN c ELSE HandleAGUIEvent(c, ev))
   EXCEPT !.sink = k, !.seen = (IF c.sink = k THEN c.seen ELSE 0) + 1]

\* How much of stream k the EventSource has delivered.
Delivered(k) == IF chat.sink = k THEN chat.seen ELSE 0

ChatDeliver ==
  /\ chat.pc = "connecting"
  /\ ChatSink # NoSink
  /\ Delivered(ChatSink) < Len(sinks[ChatSink].stream)
  /\ chat' = OnMessage(chat, ChatSink, sinks[ChatSink].stream[Delivered(ChatSink) + 1])
  /\ UNCHANGED <<eventControllers, sinks, nSinks, runs, llm, reg, data, hooks>>

\* eventSource.onerror: the server closed the stream.
ChatOnError ==
  /\ chat.pc = "connecting"
  /\ ChatSink # NoSink
  /\ ~sinks[ChatSink].open
  /\ Delivered(ChatSink) = Len(sinks[ChatSink].stream)
  /\ chat.isStreaming
  /\ chat' = [chat EXCEPT !.isStreaming = FALSE]
  /\ UNCHANGED <<eventControllers, sinks, nSinks, runs, llm, reg, data, hooks>>

NextChat ==
  \/ HandleSubmit
  \/ \E r \in RunIds, s \in Sessions : ChatPostArrives(r, s)
  \/ HandleSubmitCatch
  \/ StartEventStream
  \/ ChatAttach
  \/ ChatDeliver
  \/ ChatOnError
  \/ \E r \in RunIds : QueryAfterWait(r)
  \/ \E r \in RunIds : QueryAfterMcpState(r)
  \/ \E r \in RunIds : QueryAfterExecute(r)
  \/ \E r \in RunIds : QueryAfterFilter(r)
  \/ \E r \in RunIds : QueryAfterAnalyze(r)
  \/ \E r \in RunIds : CleanupTimer(r)
  \/ \E k \in SinkIds : KeepAlive(k)
  \/ \E k \in SinkIds : Shutdown(k)

SpecChat == InitChat /\ [][NextChat]_vars

\* The run of the submitted query has returned, the EventSource is attached
\* and has delivered everything written to its stream: no event that clears
\* isLoading can come any more.
ChatQuiet ==
  /\ chat.pc = "connecting"
  /\ ChatSink # NoSink
  /\ Delivered(ChatSink) = Len(sinks[ChatSink].stream)
  /\ \E r \in RunIds : runs[r].sid = chat.sid /\ runs[r].outcome # "none"

\* C35: a submitted query leaves the loading state: once its run has
\* returned and the client has received all that was written to its event
\* stream, isLoading is cleared, however late the stream was attached.
C35_LoadingEnds == ChatQuiet => ~chat.isLoading

\* The EventSource attached after the run's 500 ms wait was over: the run
\* was abandoned, the stream holds CONNECTION_ESTABLISHED only, isLoading
\* is still set.
C35_Witness ==
  /\ ChatQuiet
  /\ chat.isLoading
  /\ \E r \in RunIds : runs[r].sid = chat.sid /\ runs[r].outcome = "abandoned"
  /\ sinks[ChatSink].open
  /\ sinks[ChatSink].stream = <<Ev("CONNECTION_ESTABLISHED", 0)>>

\* C36: the client map and the config map have the same keys: a name has a
\* stored client if and only if it has a stored config, whatever adds and
\* removes have run or are in progress.
C36_SameKeys == {n \in Names : reg.clients[n] # NoClient} = reg.configs

\* One add was stored, another failed to connect, and a remove of the stored
\* name ended with its close() rejected: the name is in both maps.
C36_Witness ==
  \E a, b, c \in ReqIds, n \in Names :
    /\ reg.reqs[a].kind = "add" /\ reg.reqs[a].name = n /\ reg.reqs[a].stored
    /\ reg.reqs[b].kind = "add" /\ reg.reqs[b].name # n
    /\ reg.reqs[b].opened /\ reg.reqs[b].status = 500
    /\ reg.reqs[c].kind = "remove" /\ reg.reqs[c].name = n
    /\ reg.reqs[c].pc = "done" /\ reg.reqs[c].status = 500
    /\ reg.configs = {n}
    /\ reg.clients[n] # NoClient

(* ------------- mcp-state walks among adds and removes ----------------- *)
\* The registry with add-mcp, remove-mcp and mcp-state requests only, as
\* many as MaxWalkReqs of them.
MaxWalkReqs == 4
WalkReqs == 1..MaxWalkReqs

InitWalk ==
  /\ InitEmitter
  /\ llm = 0
  /\ data = 0
  /\ chat = 0
  /\ hooks = 0
  /\ reg = [clients |-> [n \in Names |-> NoClient], configs |-> {}, entries |-> <<>>,
            nClients |-> 0, reqs |-> [q \in WalkReqs |-> NoReq],
            added |-> {}, okAdded |-> {}, removeAsked |-> {}, live |-> {},
            reported |-> [n \in Names |-> "none"]]

\* The next request takes the first unused slot.
NextSlot(q) == \A p \in WalkReqs : p < q => reg.reqs[p].kind # "none"

NextWalk ==
  \/ \E q \in WalkReqs, n \in Names : NextSlot(q) /\ AddMcp(q, n)
  \/ \E q \in WalkReqs : AddConnected(q)
  \/ \E q \in WalkReqs : AddListed(q)
  \/ \E q \in WalkReqs, n \in Names : NextSlot(q) /\ RemoveMcp(q, n)
  \/ \E q \in WalkReqs : RemoveClosed(q)
  \/ \E q \in WalkReqs : NextSlot(q) /\ McpState(q)
  \/ \E q \in WalkReqs : McpStateListed(q)

SpecWalk == InitWalk /\ [][NextWalk]_vars

\* C37: in every finished mcp-state snapshot, each server that has tools
\* listed is a key of servers whose state is "ready" (so a server reported
\* with state "error" has no tools in the snapshot).
C37_ToolsOfReadyServers ==
  \A q \in WalkReqs :
    (reg.reqs[q].kind = "state" /\ reg.reqs[q].pc = "done") =>
      \A n \in reg.reqs[q].tools : reg.reqs[q].servers[n] = "ready"

\* A finished snapshot that lists a server's tools and reports the same
\* server with state "error": the name was removed and added again while
\* the walk was waiting, so the walk met it a second time.
C37_Witness ==
  \E q \in WalkReqs, n \in Names :
    /\ reg.reqs[q].kind = "state" /\ reg.reqs[q].pc = "done"
    /\ n \in reg.reqs[q].tools
    /\ reg.reqs[q].servers[n] = "error"
    /\ reg.reqs[q].outcomes[n] = "failed"

(* ------------- extraction of items that lack an id -------------------- *)
\* Tool results whose items may lack the id member: proposals that carry
\* id, proposal_id or neither, topics with or without id.  The titles are
\* such that every proposal matches every topic.
IdProposalItems ==
  {[id |-> i, proposal_id |-> j, title |-> <<"t">>] :
     i \in PIds \cup {NoId}, j \in PIds \cup {NoId}}
IdDiscussionItems ==
  {[id |-> i, title |-> <<"t">>, excerpt |-> << >>] : i \in DIds \cup {NoId}}
IdToolResults ==
  {<< [toolName |-> "get_latest_topics", success |-> TRUE,
       text |-> [NoText EXCEPT !.kind = "object", !.hasTopics = TRUE, !.topics = ds]],
      [toolName |-> "getrecentproposals", success |-> TRUE,
       text |-> [NoText EXCEPT !.kind = "object", !.hasProposals = TRUE, !.proposals = ps]] >> :
     ds \in SeqsUpTo(IdDiscussionItems, 1), ps \in SeqsUpTo(IdProposalItems, 1)}

InitIds ==
  /\ InitEmitter
  /\ llm = 0
  /\ reg = 0
  /\ data \in {[pc |-> "extract", toolResults |-> r, rawData |-> EmptyData,
                 filterInstructions |-> NoBody, filteredData |-> EmptyData,
                 analysisResult |-> NoAnalysis, response |-> NoResponse] : r \in IdToolResults}
  /\ chat = 0
  /\ hooks = 0

SpecIds == InitIds /\ [][NextData]_vars

\* The ids of a list of items.
IdsOf(items) == {items[i].id : i \in 1..Len(items)}

\* C38: in the data extraction returned, every cross-reference's proposal_id
\* is the id of a returned proposal and its discussion_id the id of a
\* returned discussion.
C38_CrossReferencesResolve ==
  data.pc # "extract" /\ data.response.status # 500 =>
    \A i \in 1..Len(data.rawData.crossReferences) :
      /\ data.rawData.crossReferences[i].proposal_id \in IdsOf(data.rawData.proposals)
      /\ data.rawData.crossReferences[i].discussion_id \in IdsOf(data.rawData.discussions)

\* Extraction returned a cross-reference without proposal id for a proposal
\* that upstream named by proposal_id and that was returned with that id.
C38_Witness ==
  /\ data.pc = "filter"
  /\ \E i \in 1..Len(data.rawData.crossReferences), k \in 1..Len(data.rawData.proposals) :
       /\ data.rawData.crossReferences[i].proposal_id = NoId
       /\ data.toolResults[2].text.proposals[k].proposal_id \in PIds
       /\ data.rawData.proposals[k].id = data.toolResults[2].text.proposals[k].proposal_id
       /\ data.rawData.crossReferences[i].discussion_id \in IdsOf(data.rawData.discussions)

(* ====================================================================== *)
(* useMCPConnection: the module globals shared by the hook instances and   *)
(* the default-server auto-connect sequence.                               *)
(* ====================================================================== *)
MaxHooks == 3
HookIds == 1..MaxHooks

\* defaultServers.length
DefaultServers == 2

\* globalConnectionPromise === null
NoPromise == 0

\* A hook instance that has not mounted.  pc: the position of its
\* initializeConnection; active: isActiveRef.current; seq, at: the position
\* of the sequence it started and the default server that one is at;
\* waits: the hook whose sequence's promise it awaits.
NoHook == [pc |-> "unmounted", active |-> TRUE, seq |-> "none", at |-> 0, waits |-> NoPromise]

\* promise: the hook whose sequence's promise globalConnectionPromise holds.
InitHooks ==
  /\ InitEmitter
  /\ llm = 0
  /\ reg = 0
  /\ data = 0
  /\ chat = 0
  /\ hooks = [activeHookCount |-> 0, completed |-> FALSE, promise |-> NoPromise,
              inst |-> [h \in HookIds |-> NoHook]]

\* useEffect: the instance mounts and starts initializeConnection, which
\* awaits refreshMcpState().
Mount(h) ==
  /\ hooks.inst[h].pc = "unmounted"
  /\ hooks' = [hooks EXCEPT !.activeHookCount = @ + 1, !.inst[h].pc = "refresh"]
  /\ UNCHANGED <<eventControllers, sinks, nSinks, runs, llm, reg, data, chat>>

\* The effect's cleanup; the last instance to unmount resets the globals.
Unmount(h) ==
  /\ hooks.inst[h].pc # "unmounted" /\ hooks.inst[h].active
  /\ hooks' = [hooks EXCEPT
       !.activeHookCount = @ - 1,
       !.inst[h].active = FALSE,
       !.completed = IF hooks.activeHookCount = 1 THEN FALSE ELSE @,
       !.promise = IF hooks.activeHookCount = 1 THEN NoPromise ELSE @]
  /\ UNCHANGED <<eventControllers, sinks, nSinks, runs, llm, reg, data, chat>>

\* The async function of h's sequence ends: its promise resolves, the hooks
\* awaiting it return, and h, which started it, runs
\* globalConnectionPromise = null.
Finished(g, h) ==
  [g EXCEPT !.promise = NoPromise,
            !.inst = [k \in HookIds |->
               IF k = h THEN [g.inst[k] EXCEPT !.seq = "finished", !.pc = "done"]
               ELSE IF g.inst[k].pc = "awaitPromise" /\ g.inst[k].waits = h
                 THEN [g.inst[k] EXCEPT !.pc = "done"]
               ELSE g.inst[k]]]

\* The loop of h's sequence comes to default server i: past the last one
\* it ends, an unmounted instance breaks, else addMCPServer is awaited.
Iterate(g, h, i) ==
  IF i > DefaultServers \/ ~g.inst[h].active THEN Finished(g, h)
  ELSE [g EXCEPT !.inst[h].seq = "adding", !.inst[h].at = i]

\* autoConnectDefaultServers up to its first await.
AutoConnectDefaultServers(g, h) ==
  IF g.promise # NoPromise
    THEN [g EXCEPT !.inst[h].pc = "awaitPromise", !.inst[h].waits = g.promise]
  ELSE IF g.completed THEN [g EXCEPT !.inst[h].pc = "done"]
  ELSE Iterate([g EXCEPT !.promise = h, !.completed = TRUE, !.inst[h].pc = "run"], h, 1)

\* refreshMcpState() of initializeConnection returned (at once when the
\* instance has unmounted): autoConnectDefaultServers is called.
RefreshSettled(h) ==
  /\ hooks.inst[h].pc = "refresh"
  /\ hooks' = AutoConnectDefaultServers(hooks, h)
  /\ UNCHANGED <<eventControllers, sinks, nSinks, runs, llm, reg, data, chat>>

\* addMCPServer settled: fulfilled, the 500 ms pause follows; rejected, the
\* catch logs and the loop goes on.
AddSettled(h) ==
  /\ hooks.inst[h].seq = "adding"
  /\ \E ok \in BOOLEAN :
       hooks' = IF ok THEN [hooks EXCEPT !.inst[h].seq = "pause"]
                ELSE Iterate(hooks, h, hooks.inst[h].at + 1)
  /\ UNCHANGED <<eventControllers, sinks, nSinks, runs, llm, reg, data, chat>>

\* The 500 ms pause after a connected server is over.
PauseOver(h) ==
  /\ hooks.inst[h].seq = "pause"
  /\ hooks' = Iterate(hooks, h, hooks.inst[h].at + 1)
  /\ UNCHANGED <<eventControllers, sinks, nSinks, runs, llm, reg, data, chat>>

NextHooks ==
  \/ \E h \in HookIds : Mount(h)
  \/ \E h \in HookIds : Unmount(h)
  \/ \E h \in HookIds : RefreshSettled(h)
  \/ \E h \in HookIds : AddSettled(h)
  \/ \E h \in HookIds : PauseOver(h)

SpecHooks == InitHooks /\ [][NextHooks]_vars

\* The sequence h started is between its first addMCPServer and its end.
Connects(h) == hooks.inst[h].seq \in {"adding", "pause"}

\* C39: at no time are two auto-connect sequences in flight.
C39_OneSequenceAtATime ==
  \A h, k \in HookIds : Connects(h) /\ Connects(k) => h = k

\* Two sequences are in flight: the first was started by an instance that
\* has unmounted, the second by an instance mounted after the reset.
C39_Witness ==
  \E h, k \in HookIds :
    /\ h # k
    /\ Connects(h) /\ ~hooks.inst[h].active
    /\ Connects(k) /\ hooks.inst[k].active
    /\ hooks.promise = k
    /\ hooks.activeHookCount = 1

\* C40: a POST sentiment-analysis request leads to SENTIMENT_ANALYSIS_COMPLETE
\* written to a sink attached for the session id it returns.  The run is
\* awaited before the response and nothing emits for the session after it, so
\* once the request is answered the event has been written: the run went
\* through its analysis and one of its custom events reached a sink.
C40_SentimentCompletes ==
  \A r \in RunIds :
    (runs[r].kind = "sentiment" /\ runs[r].handler = "post" /\ runs[r].pc = "done") =>
      /\ runs[r].outcome = "finished"
      /\ \E j \in 1..Len(runs[r].emitted) :
           runs[r].emitted[j].type = "CUSTOM" /\ runs[r].emitted[j].to \in SinkIds

\* A POST sentiment-analysis was answered after its ten waits found no
\* controller and it emitted nothing; the sink attached for the returned
\* session id afterwards holds no custom event.
C40_Witness ==
  \E r \in RunIds, k \in SinkIds :
    /\ runs[r].kind = "sentiment" /\ runs[r].handler = "post" /\ runs[r].pc = "done"
    /\ runs[r].status = 200
    /\ runs[r].outcome = "abandoned" /\ runs[r].attempts = PollAttempts
    /\ runs[r].emitted = <<>>
    /\ sinks[k].kind = "events" /\ sinks[k].sid = runs[r].sid /\ sinks[k].open
    /\ eventControllers[runs[r].sid] = k
    /\ \A i \in 1..Len(sinks[k].stream) : sinks[k].stream[i].type # "CUSTOM"

====
